---- MODULE Spec2Model ----
(***************************************************************************)
(* The cooperative process scheduler of runtimes/minimal/src/scheduler.rs  *)
(* as a state machine: one scheduler thread (Self) running the             *)
(* run_once / scheduler_yield loop, the processes it swaps into, and a     *)
(* second scheduler (Other) that only owns run queues.                     *)
(***************************************************************************)
EXTENDS Integers, Sequences, FiniteSets, TLC

\* ------------------------------------------------------------------ bounds
NProcs == 2        \* processes that can be spawned besides the root process
Budget == 2        \* reductions a process may consume in one time slice
MaxWork == 2       \* reductions counted in one behaviour of Spec
LowDelay == 1      \* dequeues a Low priority process is passed over

\* --------------------------------------------------------------- constants
Root == 0
Self == 1
Other == 2
NoProc == 0 - 1

Procs == 1..NProcs
Pids == 0..NProcs
SchedIds == {Self, Other}
Priorities == {"Low", "Normal", "High"}
Classes == {"throw", "error", "exit"}
Reasons == {<<"badarith">>}
NoException == [class |-> "none", reason |-> <<>>]
Results == {NoException} \cup [class : Classes, reason : Reasons]

VARIABLES
    status,            \* Process::status; "Unspawned" before Process::new
    priority,          \* Process::priority
    scheduler_id,      \* Process::scheduler_id(), 0 when bound to none
    exception,         \* the exception held by Status::RuntimeException
    total_reductions,  \* Process::total_reductions
    run_reductions,    \* Process's own reduction counter, used up by reduce()
    links,             \* process -> set of linked processes
    registry,          \* pids registered by put_pid_to_process
    run_queues,        \* Scheduler::run_queues, one per scheduler
    current,           \* Scheduler::current
    counter,           \* CURRENT_REDUCTION_COUNT of the scheduler's thread
    pc,                \* where the thread of Self is
    rq_locked,         \* the write lock of Self's run queues is held
    exiting,           \* the process requeue handed back, NoProc when none
    ret,               \* what the last run_once returned: "none" inside a call
    lastRun,           \* the Run the last dequeue of this call returned
    timeouts,          \* Hierarchy::timeout calls made by this run_once call
    swaps,             \* swap_process calls made by this run_once call
    requeues,          \* requeue calls made by this run_once call
    requeued,          \* the process last handed to requeue
    events,            \* per process, the log_exit / propagate_exit calls made
    counted,           \* reductions counted on the per-thread counter so far
    exit_arg,          \* the result of the process_exit call that is yielding
    runtime,           \* the runtime whose main_internal runs: "full" or "tiny"
    main_pc,           \* where main_internal is; "off" when it is not modelled
    scheduled,         \* main_internal's local `scheduled`
    kfunction,         \* the Kernel function handed to LowerFunctionToSsa
    lowered,           \* the state of the pass when LowerFunctionToSsa::run ended
    lower_pc,          \* "input", "lowered"; "off" when the pass is not modelled
    exec,              \* the lowered code being executed: block, position, values
    list               \* a list of rt::term::list: its cells, builder and Iter

procVars == <<status, priority, scheduler_id, exception, total_reductions,
              run_reductions, links, registry>>
schedVars == <<run_queues, current, counter, pc, rq_locked, exiting>>
callVars == <<ret, lastRun, timeouts, swaps, requeues, requeued>>
histVars == <<events, counted, exit_arg>>
mainVars == <<runtime, main_pc, scheduled>>
lowerVars == <<kfunction, lowered, lower_pc, exec>>
listVars == <<list>>
extVars == <<mainVars, lowerVars, listVars>>
vars == <<procVars, schedVars, callVars, histVars, extVars>>

NotCalled == [class |-> "not_called", reason |-> <<>>]

\* -------------------------------------------------------------- Process
\* Process::is_exiting
is_exiting(st) == st \in {"Exited", "RuntimeException"}

\* Process::stop_waiting: a waiting process becomes runnable
process_stop_waiting(st) == IF st = "Waiting" THEN "Runnable" ELSE st

\* Exception::set_nocatch: the reason becomes {nocatch, Reason}
set_nocatch(e) == [e EXCEPT !.reason = <<"nocatch">> \o @]

\* Options::cascaded_priority: the option, else the parent's, else Normal
cascaded_priority(opt, parent) ==
    IF opt # "none" THEN opt
    ELSE IF parent # NoProc THEN priority[parent] ELSE "Normal"

\* ------------------------------------------------------- run_queue::Queues
EmptyQueues == [high |-> <<>>, normal_low |-> <<>>, waiting |-> {}]

Enqueue(rq, p, prio) ==
    IF prio = "High"
    THEN [rq EXCEPT !.high = Append(@, p)]
    ELSE [rq EXCEPT !.normal_low =
              Append(@, [process |-> p,
                         delay |-> IF prio = "Low" THEN LowDelay ELSE 0])]

Dequeue(rq) ==
    IF rq.high # <<>>
    THEN [run |-> "Now", process |-> Head(rq.high),
          rq |-> [rq EXCEPT !.high = Tail(@)]]
    ELSE IF rq.normal_low # <<>>
    THEN LET h == Head(rq.normal_low) IN
         IF h.delay = 0
         THEN [run |-> "Now", process |-> h.process,
               rq |-> [rq EXCEPT !.normal_low = Tail(@)]]
         ELSE [run |-> "Delayed", process |-> NoProc,
               rq |-> [rq EXCEPT !.normal_low =
                           Append(Tail(@), [h EXCEPT !.delay = @ - 1])]]
    ELSE IF rq.waiting # {}
    THEN [run |-> "Waiting", process |-> NoProc, rq |-> rq]
    ELSE [run |-> "None", process |-> NoProc, rq |-> rq]

\* a requeue that hands a waiting process back as well
requeue_waiting_handed_back(rq, p, st, prio) ==
    IF st = "Waiting" THEN [rq |-> rq, exiting |-> TRUE, panic |-> FALSE]
    ELSE IF st = "Runnable"
    THEN [rq |-> Enqueue(rq, p, prio), exiting |-> FALSE, panic |-> FALSE]
    ELSE [rq |-> rq, exiting |-> is_exiting(st), panic |-> ~is_exiting(st)]

Requeue(rq, p, st, prio) ==
    CASE st = "Runnable" ->
            [rq |-> Enqueue(rq, p, prio), exiting |-> FALSE, panic |-> FALSE]
      [] st = "Waiting" ->
            [rq |-> [rq EXCEPT !.waiting = @ \cup {p}],
             exiting |-> FALSE, panic |-> FALSE]
      [] is_exiting(st) ->
            [rq |-> rq, exiting |-> TRUE, panic |-> FALSE]
      [] OTHER ->
            [rq |-> rq, exiting |-> FALSE, panic |-> TRUE]

QueuesStopWaiting(rq, p, prio) ==
    IF p \in rq.waiting
    THEN Enqueue([rq EXCEPT !.waiting = @ \ {p}], p, prio)
    ELSE rq

RunQueueLen(rq, prio) ==
    IF prio = "High" THEN Len(rq.high) ELSE Len(rq.normal_low)

QueuedProcs(rq) ==
    {rq.high[i] : i \in DOMAIN rq.high}
        \cup {rq.normal_low[i].process : i \in DOMAIN rq.normal_low}

\* how many times p is held by the run queues of scheduler s
Occurrences(rq, p) ==
    Cardinality({i \in DOMAIN rq.high : rq.high[i] = p})
        + Cardinality({i \in DOMAIN rq.normal_low : rq.normal_low[i].process = p})
        + (IF p \in rq.waiting THEN 1 ELSE 0)

\* ------------------------------------------------------------ Scheduler
\* Scheduler::stop_waiting, reached through the free function stop_waiting
stop_waiting(st, rqs, p) ==
    [status |-> [st EXCEPT ![p] = process_stop_waiting(@)],
     rqs |-> [rqs EXCEPT ![scheduler_id[p]] =
                  QueuesStopWaiting(@, p, priority[p])]]

RECURSIVE StopWaitingAll(_, _, _)
StopWaitingAll(S, st, rqs) ==
    IF S = {} THEN [status |-> st, rqs |-> rqs]
    ELSE LET p == CHOOSE x \in S : \A y \in S : x <= y
             r == stop_waiting(st, rqs, p)
         IN StopWaitingAll(S \ {p}, r.status, r.rqs)

\* a reset that returns the count and leaves the counter standing
reset_without_zeroing(c) == [count |-> c, counter |-> c]

\* reset_reduction_counter: returns the count and zeroes the counter
reset_reduction_counter(c) == [count |-> c, counter |-> 0]

\* a descheduling that overwrites the status set while the process ran
DescheduledAlwaysRunnable(st) == "Runnable"

\* the status of the process that yielded, lines 453-459
DescheduledStatus(st) == IF st = "Running" THEN "Runnable" ELSE st

\* a `match` on the requeue call keeps the guard until the match ends
LockKeptByMatch == TRUE

\* the guard of `self.run_queues.write()` in the requeue statement is a
\* temporary dropped at the end of that statement
LockHeldAfterRequeue == FALSE

\* propagate_exit: an abnormal exit is passed on to every linked process
\* that is not exiting yet, and each linked process is woken
RECURSIVE PropagateTo(_, _, _, _, _)
PropagateTo(S, exc, st, ex, rqs) ==
    IF S = {} THEN [status |-> st, exception |-> ex, rqs |-> rqs]
    ELSE LET q == CHOOSE x \in S : \A y \in S : x <= y
             hit == exc # NoException /\ ~is_exiting(st[q])
             st1 == IF hit THEN [st EXCEPT ![q] = "RuntimeException"] ELSE st
             ex1 == IF hit THEN [ex EXCEPT ![q] = [class |-> "exit",
                                                   reason |-> exc.reason]]
                    ELSE ex
             r == IF hit THEN stop_waiting(st1, rqs, q)
                  ELSE [status |-> st1, rqs |-> rqs]
         IN PropagateTo(S \ {q}, exc, r.status, ex1, r.rqs)

\* main_internal is not running: the scheduler is driven directly
MainOff ==
    /\ runtime = "none"
    /\ main_pc = "off"
    /\ scheduled = "none"

\* Scheduler::new: the root process is current and running, nothing is queued
SchedulerNew ==
    /\ status = [p \in Pids |-> IF p = Root THEN "Running" ELSE "Unspawned"]
    /\ priority = [p \in Pids |-> "Normal"]
    /\ scheduler_id = [p \in Pids |-> IF p = Root THEN Self ELSE 0]
    /\ exception = [p \in Pids |-> NoException]
    /\ total_reductions = [p \in Pids |-> 0]
    /\ run_reductions = [p \in Pids |-> 0]
    /\ links = [p \in Pids |-> {}]
    /\ registry = {}
    /\ run_queues = [s \in SchedIds |-> EmptyQueues]
    /\ current = Root
    /\ counter = 0
    /\ pc = "idle"
    /\ rq_locked = FALSE
    /\ exiting = NoProc
    /\ ret = "none"
    /\ lastRun = "none"
    /\ timeouts = 0
    /\ swaps = 0
    /\ requeues = 0
    /\ requeued = NoProc
    /\ events = [p \in Pids |-> <<>>]
    /\ counted = 0
    /\ exit_arg = NotCalled

\* the lowering pass is not running
LowerOff ==
    /\ kfunction = "none"
    /\ lowered = "none"
    /\ lower_pc = "off"
    /\ exec = "none"

\* ------------------------------------------------- rt::term (list.rs)
\* a Term: Term::None, Term::Nil, an atom `a`, or Term::Cons of the cell `c`
TermNone == [t |-> "none", a |-> "", c |-> 0]
Nil == [t |-> "nil", a |-> "", c |-> 0]
AtomTerm(a) == [t |-> "atom", a |-> a, c |-> 0]
ConsTerm(c) == [t |-> "cons", a |-> "", c |-> c]

\* Option::None of an Option<Result<Term, ImproperList>>, Option<OpaqueTerm>
Absent == [some |-> FALSE, ok |-> TRUE, term |-> TermNone]
\* Some(Ok(term)), Some(Err(ImproperList { tail: term }))
SomeOk(term) == [some |-> TRUE, ok |-> TRUE, term |-> term]
SomeErr(term) == [some |-> TRUE, ok |-> FALSE, term |-> term]

\* no list is being built or iterated
NoList ==
    [pc |-> "off", slice |-> <<>>, pushed |-> 0, from_slice |-> FALSE,
     cells |-> <<>>, builder |-> Absent, cons |-> Absent, head |-> Absent,
     tail |-> Absent, items |-> <<>>]

ListOff == list = NoList

Init == SchedulerNew /\ MainOff /\ LowerOff /\ ListOff


\* ------------------------------------------------------- the scheduler loop
\* Scheduler::run_once: scheduler_yield up to its loop; Hierarchy::timeout
\* wakes the waiting processes whose timers fired (any of them may have one)
run_once ==
    /\ pc = "idle"
    /\ \E F \in SUBSET run_queues[Self].waiting :
          LET w == StopWaitingAll(F, status, run_queues) IN
          /\ status' = w.status
          /\ run_queues' = w.rqs
    /\ pc' = "loop"
    /\ ret' = "none"
    /\ lastRun' = "none"
    /\ timeouts' = 1
    /\ swaps' = 0
    /\ requeues' = 0
    /\ requeued' = NoProc
    /\ UNCHANGED <<priority, scheduler_id, exception, total_reductions,
                   run_reductions, links, registry, current, counter,
                   rq_locked, exiting, histVars>>

\* a loop that dequeues twice per iteration and drops the first process
dequeue_dropping(rqs) ==
    LET d == Dequeue(rqs[Self]) IN
    IF d.run = "Now" /\ Dequeue(d.rq).run = "Now" THEN Dequeue(d.rq) ELSE d

\* lines 417-420: one dequeue from this scheduler's run queues, under the
\* write lock, which is released before the result is looked at
dequeue(rqs) == Dequeue(rqs[Self])

\* a swap that sets the per-thread counter to the budget
swap_process_setting_budget(st, prev, new, c) ==
    [status |-> [[st EXCEPT ![new] = "Running"]
                     EXCEPT ![prev] = IF @ = "Running" THEN "Runnable" ELSE @],
     current |-> new,
     counter |-> Budget]

\* swap_process up to swap_stack: new is Running and current, the process
\* that was current is Runnable if it was Running; the per-thread counter
\* is not written
swap_process(st, prev, new, c) ==
    [status |-> [[st EXCEPT ![new] = "Running"]
                     EXCEPT ![prev] = IF @ = "Running" THEN "Runnable" ELSE @],
     current |-> new,
     counter |-> c]

\* a loop without the is_exiting check
ShouldSwapAlways(st) == TRUE

\* line 429: an exiting process is not swapped into
ShouldSwap(st) == ~is_exiting(st)

\* Process::reduce: the process's own reduction budget is used up
reduce(rr) == Budget

\* a loop that takes Run::Waiting for the end of all work
ReturnFalseOnWaiting == "false"

\* what run_once returns for Run::Waiting
ReturnOnWaiting == "true"

\* what run_once returns for Run::None at the root
ReturnOnNone == "false"

\* the requeue statement and, when requeue hands nothing back, the return
RequeueStep(p, st, rqs) ==
    LET r == Requeue(rqs[Self], p, st[p], priority[p]) IN
    /\ run_queues' = [rqs EXCEPT ![Self] = r.rq]
    /\ requeues' = requeues + 1
    /\ requeued' = p
    /\ IF r.panic
       THEN pc' = "panic" /\ exiting' = NoProc /\ rq_locked' = FALSE
            /\ ret' = "none"
       ELSE IF r.exiting
       THEN pc' = "exiting" /\ exiting' = p
            /\ rq_locked' = LockHeldAfterRequeue /\ ret' = "none"
       ELSE pc' = "idle" /\ exiting' = NoProc /\ rq_locked' = FALSE
            /\ ret' = "true"

\* Run::Delayed: dequeue again
dequeue_delayed ==
    /\ pc = "loop"
    /\ LET d == dequeue(run_queues) IN
       /\ d.run = "Delayed"
       /\ run_queues' = [run_queues EXCEPT ![Self] = d.rq]
    /\ lastRun' = "Delayed"
    /\ UNCHANGED <<procVars, current, counter, pc, rq_locked, exiting,
                   ret, timeouts, swaps, requeues, requeued, histVars>>

\* Run::Waiting: return to the main loop
dequeue_waiting ==
    /\ pc = "loop"
    /\ dequeue(run_queues).run = "Waiting"
    /\ lastRun' = "Waiting"
    /\ ret' = ReturnOnWaiting
    /\ pc' = "idle"
    /\ UNCHANGED <<procVars, run_queues, current, counter, rq_locked,
                   exiting, timeouts, swaps, requeues, requeued, histVars>>

\* Run::None: false at the root, unreachable!() elsewhere
dequeue_none ==
    /\ pc = "loop"
    /\ dequeue(run_queues).run = "None"
    /\ lastRun' = "None"
    /\ IF current = Root
       THEN ret' = ReturnOnNone /\ pc' = "idle"
       ELSE ret' = "none" /\ pc' = "panic"
    /\ UNCHANGED <<procVars, run_queues, current, counter, rq_locked,
                   exiting, timeouts, swaps, requeues, requeued, histVars>>

\* Run::Now(process), not exiting: swap into it
dequeue_now_swap ==
    /\ pc = "loop"
    /\ LET d == dequeue(run_queues) IN
       /\ d.run = "Now"
       /\ ShouldSwap(status[d.process])
       /\ LET s == swap_process(status, current, d.process, counter) IN
          /\ status' = s.status
          /\ current' = s.current
          /\ counter' = s.counter
       /\ run_queues' = [run_queues EXCEPT ![Self] = d.rq]
    /\ lastRun' = "Now"
    /\ swaps' = swaps + 1
    /\ pc' = "running"
    /\ UNCHANGED <<priority, scheduler_id, exception, total_reductions,
                   run_reductions, links, registry,
                   rq_locked, exiting, ret, timeouts, requeues, requeued,
                   histVars>>

\* Run::Now(process), exiting: reduce it and hand it to requeue
dequeue_now_exiting ==
    /\ pc = "loop"
    /\ LET d == dequeue(run_queues) IN
       /\ d.run = "Now"
       /\ ~ShouldSwap(status[d.process])
       /\ run_reductions' = [run_reductions EXCEPT ![d.process] = reduce(@)]
       /\ RequeueStep(d.process, status,
                      [run_queues EXCEPT ![Self] = d.rq])
    /\ lastRun' = "Now"
    /\ UNCHANGED <<status, priority, scheduler_id, exception,
                   total_reductions, links, registry, current,
                   counter, timeouts, swaps, histVars>>

\* a return from the swap that leaves the process that yielded current
replace_current_skipped(prev) == prev

\* lines 445-446: self.current.replace(self.root.clone())
replace_current(prev) == Root

\* the process yielded back: lines 440-475
scheduler_resumed ==
    /\ pc = "yielded"
    /\ LET prev == current
           r == reset_reduction_counter(counter)
           st == [status EXCEPT ![prev] = DescheduledStatus(@)]
       IN /\ current' = replace_current(prev)
          /\ total_reductions' =
                 [total_reductions EXCEPT ![prev] = @ + r.count]
          /\ counter' = r.counter
          /\ status' = st
          /\ RequeueStep(prev, st, run_queues)
    /\ exit_arg' = NotCalled
    /\ UNCHANGED <<priority, scheduler_id, exception, run_reductions, links,
                   registry, lastRun, timeouts, swaps, events, counted>>

\* an exit handling that logs normal exits too
ExitCallsAlwaysLog(st) == <<"log_exit", "propagate_exit">>

\* the calls made for an exiting process, in order
ExitCalls(st) ==
    IF st = "Exited" THEN <<"propagate_exit">>
    ELSE <<"log_exit", "propagate_exit">>

\* lines 477-495: the exit of the process requeue handed back
handle_exit ==
    /\ pc = "exiting"
    /\ LET p == exiting IN
       IF rq_locked /\ links[p] # {}
       THEN /\ pc' = "deadlock"
            /\ UNCHANGED <<procVars, run_queues, current, counter,
                           rq_locked, exiting, callVars, histVars>>
       ELSE IF ~(status[p] \in {"Exited", "RuntimeException"})
       THEN /\ pc' = "panic"
            /\ UNCHANGED <<procVars, run_queues, current, counter,
                           rq_locked, exiting, callVars, histVars>>
       ELSE LET r == PropagateTo(links[p],
                                 IF status[p] = "Exited" THEN NoException
                                 ELSE exception[p],
                                 status, exception, run_queues)
            IN /\ events' = [events EXCEPT ![p] = @ \o ExitCalls(status[p])]
               /\ status' = r.status
               /\ exception' = r.exception
               /\ run_queues' = r.rqs
               /\ links' = [q \in Pids |-> IF q = p THEN {} ELSE links[q] \ {p}]
               /\ registry' = registry \ {p}
               /\ pc' = "idle"
               /\ ret' = "true"
               /\ exiting' = NoProc
               /\ rq_locked' = FALSE
               /\ UNCHANGED <<priority, scheduler_id, total_reductions,
                              run_reductions, current, counter, lastRun,
                              timeouts, swaps, requeues, requeued, counted,
                              exit_arg>>

\* ------------------------------------------------------ the running process
\* generated code counts one reduction on the per-thread counter
Work(cap) ==
    /\ pc = "running"
    /\ counter < Budget
    /\ counted < cap
    /\ counter' = counter + 1
    /\ counted' = counted + 1
    /\ UNCHANGED <<procVars, run_queues, current, pc, rq_locked,
                   exiting, callVars, events, exit_arg>>

work == Work(MaxWork)

\* process_yield: swap_stack back to the scheduler
process_yield ==
    /\ pc = "running"
    /\ pc' = "yielded"
    /\ UNCHANGED <<procVars, run_queues, current, counter, rq_locked,
                   exiting, callVars, histVars>>

\* receive with no message, with or without a timeout: wait and yield
receive_wait ==
    /\ pc = "running"
    /\ status' = [status EXCEPT ![current] = "Waiting"]
    /\ pc' = "yielded"
    /\ UNCHANGED <<priority, scheduler_id, exception, total_reductions,
                   run_reductions, links, registry, run_queues, current,
                   counter, rq_locked, exiting, callVars, histVars>>

\* a process_exit that records a throw as it is
exit_status_without_nocatch(result) ==
    IF result = NoException
    THEN [status |-> "Exited", exception |-> NoException]
    ELSE [status |-> "RuntimeException", exception |-> result]

\* what process_exit records for the current process
exit_status(result) ==
    IF result = NoException
    THEN [status |-> "Exited", exception |-> NoException]
    ELSE [status |-> "RuntimeException",
          exception |-> IF result.class = "throw" THEN set_nocatch(result)
                        ELSE result]

\* process_exit(result): record the exit and yield
process_exit ==
    /\ pc = "running"
    /\ \E result \in Results :
          LET e == exit_status(result) IN
          /\ status' = [status EXCEPT ![current] = e.status]
          /\ exception' = [exception EXCEPT ![current] = e.exception]
          /\ exit_arg' = result
    /\ pc' = "yielded"
    /\ UNCHANGED <<priority, scheduler_id, total_reductions, run_reductions,
                   links, registry, run_queues, current, counter,
                   rq_locked, exiting, callVars, events, counted>>

\* the running process sends an exit signal to a runnable or waiting process
exit_signal ==
    /\ pc = "running"
    /\ \E q \in Procs \ {current} :
          /\ status[q] \in {"Runnable", "Waiting"}
          /\ LET r == stop_waiting([status EXCEPT ![q] = "RuntimeException"],
                                   run_queues, q)
             IN /\ status' = r.status
                /\ run_queues' = r.rqs
          /\ exception' = [exception EXCEPT
                               ![q] = [class |-> "exit", reason |-> <<"killed">>]]
    /\ UNCHANGED <<priority, scheduler_id, total_reductions, run_reductions,
                   links, registry, current, counter, pc, rq_locked, exiting,
                   callVars, histVars>>

\* the running process sends a message to a waiting process, which wakes it
send_message ==
    /\ pc = "running"
    /\ \E q \in Procs \ {current} :
          /\ status[q] = "Waiting"
          /\ LET r == stop_waiting(status, run_queues, q)
             IN /\ status' = r.status
                /\ run_queues' = r.rqs
    /\ UNCHANGED <<priority, scheduler_id, exception, total_reductions,
                   run_reductions, links, registry, current, counter, pc,
                   rq_locked, exiting, callVars, histVars>>

\* ------------------------------------------------------------------ spawn
\* a spawn that always schedules on the spawning scheduler
spawn_scheduler_self(self, parent) == self

\* the scheduler a spawned process is scheduled on
spawn_scheduler(self, parent) ==
    IF parent # NoProc THEN scheduler_id[parent] ELSE self

\* Scheduler::schedule: the run queues after the enqueue
schedule(rqs, s, p, prio) == [rqs EXCEPT ![s] = Enqueue(@, p, prio)]

Spawn(self, parent, opt, link) ==
    \E p \in Procs :
       /\ status[p] = "Unspawned"
       /\ \A q \in Procs : q < p => status[q] # "Unspawned"
       /\ LET s == spawn_scheduler(self, parent)
              prio == cascaded_priority(opt, parent)
          IN /\ status' = [status EXCEPT ![p] = "Runnable"]
             /\ priority' = [priority EXCEPT ![p] = prio]
             /\ scheduler_id' = [scheduler_id EXCEPT ![p] = s]
             /\ run_queues' = schedule(run_queues, s, p, prio)
             /\ registry' = registry \cup {p}
             /\ links' = IF link /\ parent # NoProc
                         THEN [links EXCEPT ![p] = {parent},
                                            ![parent] = @ \cup {p}]
                         ELSE links
       /\ UNCHANGED <<exception, total_reductions, run_reductions,
                      current, counter, pc, rq_locked, exiting, callVars,
                      histVars>>

SpawnAs(selfs, parents, opts, linked) ==
    \E self \in selfs, parent \in parents, opt \in opts, link \in linked :
        Spawn(self, parent, opt, link)

\* spawn_init: the init process, spawned without a parent and with default
\* options before the scheduler loop runs it
spawn_init ==
    /\ pc = "idle"
    /\ SpawnAs({Self}, {NoProc}, {"none"}, {FALSE})

\* spawn_closure called by the running process
spawn_closure ==
    /\ pc = "running"
    /\ SpawnAs({Self}, {NoProc, current}, {"none", "Low"}, BOOLEAN)

\* spawn_module_function_arguments called by the running process
spawn_module_function_arguments ==
    /\ pc = "running"
    /\ SpawnAs({Self}, {NoProc, current}, {"none", "Low"}, BOOLEAN)

Next ==
    \/ run_once /\ UNCHANGED extVars
    \/ dequeue_delayed /\ UNCHANGED extVars
    \/ dequeue_waiting /\ UNCHANGED extVars
    \/ dequeue_none /\ UNCHANGED extVars
    \/ dequeue_now_swap /\ UNCHANGED extVars
    \/ dequeue_now_exiting /\ UNCHANGED extVars
    \/ scheduler_resumed /\ UNCHANGED extVars
    \/ handle_exit /\ UNCHANGED extVars
    \/ work /\ UNCHANGED extVars
    \/ process_yield /\ UNCHANGED extVars
    \/ receive_wait /\ UNCHANGED extVars
    \/ process_exit /\ UNCHANGED extVars
    \/ exit_signal /\ UNCHANGED extVars
    \/ send_message /\ UNCHANGED extVars
    \/ spawn_init /\ UNCHANGED extVars
    \/ spawn_closure /\ UNCHANGED extVars
    \/ spawn_module_function_arguments /\ UNCHANGED extVars

Spec == Init /\ [][Next]_vars

\* ---------------------------------------------- spawning on two schedulers
LiveProcs == {q \in Procs : status[q] \in {"Runnable", "Running", "Waiting"}}

\* spawn_closure called on either scheduler for any live parent
any_spawn_closure ==
    /\ pc \in {"idle", "running"}
    /\ SpawnAs(IF pc = "idle" THEN SchedIds ELSE {Self},
               {NoProc} \cup LiveProcs, {"none"} \cup Priorities, BOOLEAN)

\* spawn_module_function_arguments, likewise
any_spawn_module_function_arguments ==
    /\ pc \in {"idle", "running"}
    /\ SpawnAs(IF pc = "idle" THEN SchedIds ELSE {Self},
               {NoProc} \cup LiveProcs, {"none"} \cup Priorities, BOOLEAN)

NextSpawn ==
    \/ any_spawn_closure /\ UNCHANGED extVars
    \/ any_spawn_module_function_arguments /\ UNCHANGED extVars
    \/ run_once /\ UNCHANGED extVars
    \/ dequeue_delayed /\ UNCHANGED extVars
    \/ dequeue_none /\ UNCHANGED extVars
    \/ dequeue_now_swap /\ UNCHANGED extVars
    \/ process_yield /\ UNCHANGED extVars
    \/ scheduler_resumed /\ UNCHANGED extVars

SpecSpawn == Init /\ [][NextSpawn]_vars

\* ------------------------------------- processes that loop forever, no exits
Orders(n) == {o \in [1..n -> 1..n] : \A i, j \in 1..n : o[i] = o[j] => i = j}

RECURSIVE EnqueueAll(_, _, _, _)
EnqueueAll(rq, o, prio, i) ==
    IF i > Len(o) THEN rq
    ELSE EnqueueAll(Enqueue(rq, o[i], prio[o[i]]), o, prio, i + 1)

InitFair ==
    \E n \in 1..NProcs :
    \E prio \in [1..n -> Priorities] :
    \E o \in Orders(n) :
       /\ status = [p \in Pids |-> IF p = Root THEN "Running"
                                   ELSE IF p <= n THEN "Runnable"
                                   ELSE "Unspawned"]
       /\ priority = [p \in Pids |-> IF p \in 1..n THEN prio[p] ELSE "Normal"]
       /\ scheduler_id = [p \in Pids |-> IF p <= n THEN Self ELSE 0]
       /\ registry = 1..n
       /\ run_queues = [s \in SchedIds |->
                            IF s = Self
                            THEN EnqueueAll(EmptyQueues, o, prio, 1)
                            ELSE EmptyQueues]
       /\ exception = [p \in Pids |-> NoException]
       /\ total_reductions = [p \in Pids |-> 0]
       /\ run_reductions = [p \in Pids |-> 0]
       /\ links = [p \in Pids |-> {}]
       /\ current = Root
       /\ counter = 0
       /\ pc = "idle"
       /\ rq_locked = FALSE
       /\ exiting = NoProc
       /\ ret = "none"
       /\ lastRun = "none"
       /\ timeouts = 0
       /\ swaps = 0
       /\ requeues = 0
       /\ requeued = NoProc
       /\ events = [p \in Pids |-> <<>>]
       /\ counted = 0
       /\ exit_arg = NotCalled
       /\ MainOff
       /\ LowerOff
       /\ ListOff

FairWorkCap == (NProcs + 1) * Budget

\* the loop body of a process that loops forever
loop_work == Work(FairWorkCap)

\* the yield check of generated code: yield when the budget is used up
yield_when_reduced ==
    /\ counter >= Budget
    /\ process_yield

NextFair ==
    \/ run_once /\ UNCHANGED extVars
    \/ dequeue_delayed /\ UNCHANGED extVars
    \/ dequeue_now_swap /\ UNCHANGED extVars
    \/ scheduler_resumed /\ UNCHANGED extVars
    \/ loop_work /\ UNCHANGED extVars
    \/ yield_when_reduced /\ UNCHANGED extVars

SpecFair == InitFair /\ [][NextFair]_vars


\* ================================================================ claims
InScheduler == pc \in {"idle", "loop", "exiting"}

HeldBy(p) ==
    Occurrences(run_queues[Self], p) + Occurrences(run_queues[Other], p)

RECURSIVE SumOver(_, _)
SumOver(f, S) ==
    IF S = {} THEN 0
    ELSE LET x == CHOOSE y \in S : TRUE IN f[x] + SumOver(f, S \ {x})

\* the process the next dequeue of the loop hands out as Run::Now
NextNow == dequeue(run_queues)

\* C1: a process dequeued as Run::Now that is exiting is not swapped into:
\* its status stays what it is, the root process stays current, no process
\* code runs, and in the same step reduce() is called on it and it is the
\* one process handed to requeue; and no step makes an exiting process that
\* is not current Running or current.
C1_ExitingNeverSwappedInto ==
    [][ /\ \A p \in Procs :
              (pc = "loop" /\ NextNow.run = "Now" /\ NextNow.process = p
                  /\ is_exiting(status[p]))
              => /\ status'[p] = status[p]
                 /\ current' = Root
                 /\ pc' # "running"
                 /\ swaps' = swaps
                 /\ run_reductions'[p] = Budget
                 /\ requeued' = p
                 /\ requeues' = requeues + 1
        /\ \A p \in Procs :
              (is_exiting(status[p]) /\ current # p)
              => (current' # p /\ status'[p] # "Running") ]_vars

C1_Witness ==
    /\ pc = "exiting"
    /\ lastRun = "Now"
    /\ swaps = 0
    /\ requeued = exiting
    /\ run_reductions[exiting] = Budget

\* C2: while a process_exit(result) call is yielding, the current process is
\* Exited when result carries no exception, and otherwise holds the exception
\* as its exit reason, with {nocatch, Reason} as the reason of a throw and
\* error and exit unchanged; the call has yielded to the scheduler; and a
\* process that is exiting never runs again.
C2_ProcessExit ==
    [][ /\ exit_arg' # NotCalled =>
              /\ pc' = "yielded"
              /\ current' \in Procs
              /\ HeldBy(current)' = 0
              /\ exit_arg' = NoException =>
                    status'[current'] = "Exited"
              /\ exit_arg' # NoException =>
                    /\ status'[current'] = "RuntimeException"
                    /\ exception'[current'].class = exit_arg'.class
              /\ exit_arg'.class = "throw" =>
                    exception'[current'].reason
                        = <<"nocatch">> \o exit_arg'.reason
              /\ exit_arg'.class \in {"error", "exit"} =>
                    exception'[current'] = exit_arg'
        /\ \A p \in Procs :
              is_exiting(status[p])
              => /\ is_exiting(status'[p])
                 /\ ~(pc' = "running" /\ current' = p) ]_vars

C2_Witness ==
    /\ exit_arg # NotCalled
    /\ exit_arg.class = "throw"
    /\ pc = "yielded"
    /\ exception[current].reason = <<"nocatch", "badarith">>

\* the calls the scheduler owes a process that requeue handed back
ExpectedCalls(st) ==
    IF st = "Exited" THEN <<"propagate_exit">>
    ELSE <<"log_exit", "propagate_exit">>

\* C3: a process requeue handed back as exiting gets, in the step that
\* handles it, no log_exit and one propagate_exit when it is Exited, and one
\* log_exit followed by one propagate_exit when it holds a runtime exception;
\* no call is made for it before or after that step, and afterwards it is
\* held by no run queue and is never current again.
C3_ExitHandledOnce ==
    [][ /\ pc = "exiting" =>
              /\ events[exiting] = <<>>
              /\ pc' = "idle"
              /\ events'[exiting] = ExpectedCalls(status[exiting])
        /\ \A p \in Procs :
              events[p] # <<>>
              => /\ events'[p] = events[p]
                 /\ events[p] = ExpectedCalls(status[p])
                 /\ status'[p] = status[p]
                 /\ HeldBy(p)' = 0
                 /\ current' # p
                 /\ exiting' # p ]_vars

C3_Witness ==
    /\ pc = "loop"
    /\ \E p, q \in Procs :
          /\ events[p] = <<"log_exit", "propagate_exit">>
          /\ events[q] = <<"propagate_exit">>

C5_RunOnceResult ==
    /\ (pc = "idle" /\ ret # "none") =>
          /\ lastRun \in {"None", "Waiting", "Now"}
          /\ ret = "false" <=> lastRun = "None"
          /\ ret = "false" => current = Root
          /\ lastRun \in {"Waiting", "Now"} => ret = "true"
          /\ lastRun = "Now" => requeues = 1
    /\ lastRun = "Delayed" => (pc = "loop" /\ ret = "none")
    /\ pc # "idle" => ret = "none"
    /\ lastRun # "none" => timeouts = 1
    /\ swaps <= 1
    /\ pc = "running" => swaps = 1

C5_Witness ==
    /\ pc = "idle"
    /\ ret = "false"
    /\ \E p \in Procs : events[p] # <<>>

\* C6: the step that handles a process that yielded makes the root process
\* current, adds the per-thread count to that process's total_reductions,
\* zeroes the per-thread counter, makes the process Runnable if it was
\* Running and leaves any other status alone, and calls requeue once, on it.
C6_AfterYield ==
    [][ pc = "yielded" =>
           /\ current' = Root
           /\ total_reductions'[current] = total_reductions[current] + counter
           /\ \A q \in Pids \ {current} :
                 total_reductions'[q] = total_reductions[q]
           /\ counter' = 0
           /\ status'[current] = (IF status[current] = "Running"
                                  THEN "Runnable" ELSE status[current])
           /\ requeues' = requeues + 1
           /\ requeues' = 1
           /\ requeued' = current ]_vars

C6_Witness ==
    /\ pc = "idle"
    /\ requeued \in Procs
    /\ status[requeued] = "Waiting"
    /\ total_reductions[requeued] = Budget
    /\ requeues = 1

\* C9: the total_reductions of all processes and the count standing on the
\* per-thread counter add up to the reductions counted so far; whenever
\* control is in the scheduler the counter is zero, so the total_reductions
\* alone add up to them.
C9_ReductionAccounting ==
    /\ SumOver(total_reductions, Pids) + counter = counted
    /\ InScheduler => SumOver(total_reductions, Pids) = counted

C9_Witness ==
    /\ pc = "idle"
    /\ counted = MaxWork
    /\ \E p, q \in Procs :
          /\ p # q
          /\ events[p] # <<>>
          /\ total_reductions[p] > 0
          /\ events[q] # <<>>
          /\ run_reductions[q] = Budget

Spawned == CHOOSE p \in Procs : status[p] = "Unspawned" /\ status'[p] # "Unspawned"

\* C7: a spawn call that succeeds leaves the new process Runnable, bound to
\* the parent's scheduler when a parent is given and to the spawning
\* scheduler otherwise, registered under its pid and held once by that
\* scheduler's run queues and by no other; the run queue of its priority
\* grew by one; the process is not current and no process code ran.
C7_SpawnEnqueuesOnce ==
    [][ \A self \in SchedIds, parent \in {NoProc} \cup Procs,
           opt \in {"none"} \cup Priorities, link \in BOOLEAN :
           Spawn(self, parent, opt, link) =>
              LET p == Spawned
                  s == IF parent # NoProc THEN scheduler_id[parent] ELSE self
              IN /\ status'[p] = "Runnable"
                 /\ scheduler_id'[p] = s
                 /\ p \in registry'
                 /\ Occurrences(run_queues'[s], p) = 1
                 /\ Occurrences(run_queues'[Self], p)
                       + Occurrences(run_queues'[Other], p) = 1
                 /\ RunQueueLen(run_queues'[s], priority'[p])
                       = RunQueueLen(run_queues[s], priority'[p]) + 1
                 /\ \A t \in SchedIds \ {s} : run_queues'[t] = run_queues[t]
                 /\ current' = current
                 /\ current' # p
                 /\ pc' = pc ]_vars

C7_Witness ==
    \E p, q \in Procs :
       /\ q < p
       /\ q \in links[p]
       /\ scheduler_id[q] = Other
       /\ scheduler_id[p] = Other
       /\ status[p] = "Runnable"
       /\ Occurrences(run_queues[Other], p) = 1
       /\ Occurrences(run_queues[Self], p) = 0

FairProcs == {p \in Procs : status[p] # "Unspawned"}

SamePriority == \A p, q \in FairProcs : priority[p] = priority[q]

AllSwappedInto == \A p \in FairProcs : total_reductions[p] > 0 \/ current = p

Runtimes == {"full", "tiny"}
Signals == {"none", "INT", "TERM", "OTHER"}

procSchedVars == <<procVars, schedVars, callVars, histVars>>

InitMain ==
    /\ SchedulerNew
    /\ runtime \in Runtimes
    /\ main_pc = "start"
    /\ scheduled = "none"
    /\ LowerOff
    /\ ListOff

\* tiny/src/lib.rs 42-43: the init process is spawned before the loop
main_spawn_init ==
    /\ main_pc = "start"
    /\ runtime = "tiny"
    /\ spawn_init
    /\ main_pc' = "loop"
    /\ UNCHANGED <<runtime, scheduled>>

\* full/src/lib.rs 102: the loop is entered with the current scheduler as it is
main_current ==
    /\ main_pc = "start"
    /\ runtime = "full"
    /\ main_pc' = "loop"
    /\ UNCHANGED <<procSchedVars, runtime, scheduled>>

\* `let scheduled = scheduler.run_once()`: the call
main_run_once ==
    /\ main_pc = "loop"
    /\ run_once
    /\ main_pc' = "run_once"
    /\ UNCHANGED <<runtime, scheduled>>

\* what happens on the scheduler's thread inside the call
in_run_once ==
    /\ main_pc = "run_once"
    /\ \/ dequeue_delayed
       \/ dequeue_waiting
       \/ dequeue_none
       \/ dequeue_now_swap
       \/ dequeue_now_exiting
       \/ scheduler_resumed
       \/ handle_exit
       \/ work
       \/ process_yield
       \/ receive_wait
       \/ process_exit
       \/ spawn_closure
    /\ UNCHANGED mainVars

\* the call returns and its result is bound to `scheduled`
main_scheduled ==
    /\ main_pc = "run_once"
    /\ pc = "idle"
    /\ ret # "none"
    /\ scheduled' = ret
    /\ main_pc' = "try_recv"
    /\ UNCHANGED <<procSchedVars, runtime>>

\* full 132-146: thread::yield_now() and the next iteration;
\* tiny 69-73: break
AfterIdleCycle(rt) == IF rt = "full" THEN "yield_now" ELSE "shutdown"

\* rx1.try_recv() and the match on the signal, then `if scheduled`
main_try_recv ==
    /\ main_pc = "try_recv"
    /\ \E sig \in Signals :
          main_pc' = CASE sig = "INT" -> "shutdown"
                       [] sig = "TERM" -> "returned"
                       [] OTHER -> IF scheduled = "true" THEN "loop"
                                   ELSE AfterIdleCycle(runtime)
    /\ UNCHANGED <<procSchedVars, runtime, scheduled>>

\* thread::yield_now(), then the loop starts over
main_yield_now ==
    /\ main_pc = "yield_now"
    /\ main_pc' = "loop"
    /\ UNCHANGED <<procSchedVars, runtime, scheduled>>

\* scheduler.shutdown(), then main_internal returns
main_shutdown ==
    /\ main_pc = "shutdown"
    /\ main_pc' = "returned"
    /\ UNCHANGED <<procSchedVars, runtime, scheduled>>

NextMain ==
    \/ main_spawn_init /\ UNCHANGED <<lowerVars, listVars>>
    \/ main_current /\ UNCHANGED <<lowerVars, listVars>>
    \/ main_run_once /\ UNCHANGED <<lowerVars, listVars>>
    \/ in_run_once /\ UNCHANGED <<lowerVars, listVars>>
    \/ main_scheduled /\ UNCHANGED <<lowerVars, listVars>>
    \/ main_try_recv /\ UNCHANGED <<lowerVars, listVars>>
    \/ main_yield_now /\ UNCHANGED <<lowerVars, listVars>>
    \/ main_shutdown /\ UNCHANGED <<lowerVars, listVars>>

SpecMain == InitMain /\ [][NextMain]_vars

\* C11: when run_once has returned false (no process remains to schedule),
\* the main loop of either runtime makes no further run_once call: from the
\* signal check on it only goes to the scheduler's shutdown or returns.
C11_MainLoopTerminates ==
    [][(main_pc = "try_recv" /\ scheduled = "false")
          => main_pc' \in {"shutdown", "returned"}]_vars

\* the tiny runtime alone does terminate so
C11_TinyMainLoopTerminates ==
    [][(runtime = "tiny" /\ main_pc = "try_recv" /\ scheduled = "false")
          => main_pc' \in {"shutdown", "returned"}]_vars

\* the full runtime is back in run_once after run_once returned false
C11_Witness ==
    /\ runtime = "full"
    /\ main_pc = "run_once"
    /\ scheduled = "false"

\* ==================================== Kernel -> SSA lowering (kernel_to_ssa)
\* A Kernel expression is a record of one shape for every form:
\*   k    the form: "Var", "Literal", "Seq", "Match", "Call", "Bif", ...
\*   op   a name: the variable, the literal, the bif, the label, the match type
\*   sub  the sub-expressions that are lowered as code
\*   args the argument expressions (variables and literals)
\*   ret, vars, evars  variable names
\*   ann  an annotation: "closure", "unused", ...
KExpr(k, op, sub, args, rets, kvars, evars, ann) ==
    [k |-> k, op |-> op, sub |-> sub, args |-> args, ret |-> rets,
     vars |-> kvars, evars |-> evars, ann |-> ann]

Var(name) == KExpr("Var", name, <<>>, <<>>, <<>>, <<>>, <<>>, "")
Literal(lit) == KExpr("Literal", lit, <<>>, <<>>, <<>>, <<>>, <<>>, "")

\* ---------------------------------------------------------------- IrBuilder
\* an SSA value: a block parameter or a result of an instruction
NoValue == [t |-> "none", b |-> 0, i |-> 0, n |-> 0]
BlockParam(b, n) == [t |-> "param", b |-> b, i |-> 0, n |-> n]
InstResult(b, i, n) == [t |-> "result", b |-> b, i |-> i, n |-> n]

EmptyBlock == [params |-> 0, insts |-> <<>>, removed |-> FALSE]

Terminators ==
    {"br", "cond_br", "switch", "ret", "ret_err", "ret_ok", "enter",
     "enter_indirect"}

\* FailContext
Uncaught(blk) == [kind |-> "Uncaught", block |-> blk]
Catch(blk) == [kind |-> "Catch", block |-> blk]
Guard(blk) == [kind |-> "Guard", block |-> blk]

\* Catch before Guard: the landing pads looked at first
fail_context_pads_first(s) ==
    IF s.landing_pads # <<>> THEN Catch(s.landing_pads[Len(s.landing_pads)])
    ELSE IF s.fail # s.ultimate_failure THEN Guard(s.fail)
    ELSE Uncaught(s.fail)

\* LowerFunctionToSsa::fail_context
fail_context(s) ==
    IF s.fail # s.ultimate_failure THEN Guard(s.fail)
    ELSE IF s.landing_pads = <<>> THEN Uncaught(s.fail)
    ELSE Catch(s.landing_pads[Len(s.landing_pads)])

\* what the pass held when an instruction was emitted (kept with the
\* instruction for the properties below; the `guards` are the fail blocks of
\* the guard clauses being lowered, innermost last, `protected` the number
\* of guard tries being lowered)
\* (`select` is the type clause being lowered by lower_select, innermost:
\* its two fail blocks and the part of it the instruction belongs to, the
\* test of the type, the tests of the values or a clause body)
NoSelect == [ty |-> "", type_fail |-> 0, value_fail |-> 0, part |-> "none"]

Emitted(s) ==
    [fail |-> s.fail, ultimate_failure |-> s.ultimate_failure,
     landing_pads |-> s.landing_pads, guards |-> s.guards,
     protected |-> s.protected, context |-> fail_context(s),
     brk |-> s.brk, labels |-> s.labels,
     select |-> IF s.selects = <<>> THEN NoSelect
                ELSE s.selects[Len(s.selects)]]

\* The local variables of the function of the pass that is running are kept
\* with the pass, one frame per call: `v` holds the SSA values (every local
\* is a sequence of values, of length one for a single value), `b` the
\* blocks (likewise).
NoLocals == [name \in {} |-> <<>>]
enter(s) == [s EXCEPT !.frames = Append(@, [v |-> NoLocals, b |-> NoLocals])]
leave(s) == [s EXCEPT !.frames = SubSeq(@, 1, Len(@) - 1)]

\* the values, the blocks, a local holds
values(s, name) == s.frames[Len(s.frames)].v[name]
blocks_of(s, name) == s.frames[Len(s.frames)].b[name]
value(s, name) == values(s, name)[1]
block(s, name) == blocks_of(s, name)[1]

RECURSIVE all_values(_, _)
all_values(s, names) ==
    IF names = <<>> THEN <<>>
    ELSE values(s, Head(names)) \o all_values(s, Tail(names))

RECURSIVE all_blocks(_, _)
all_blocks(s, names) ==
    IF names = <<>> THEN <<>>
    ELSE blocks_of(s, Head(names)) \o all_blocks(s, Tail(names))

let_values(s, name, vs) ==
    [s EXCEPT !.frames[Len(s.frames)].v = (name :> vs) @@ @]
let_blocks(s, name, bs) ==
    [s EXCEPT !.frames[Len(s.frames)].b = (name :> bs) @@ @]

\* let name = [the values of the locals `names`]
let_all(s, name, names) ==
    IF s.status # "ok" THEN s ELSE let_values(s, name, all_values(s, names))

\* let name = builder.create_block()
create_block(s, name) ==
    IF s.status # "ok" THEN s
    ELSE let_blocks([s EXCEPT !.blocks = Append(@, EmptyBlock)], name,
                    <<Len(s.blocks) + 1>>)

\* n blocks created one after the other, held by one local
RECURSIVE create_blocks(_, _, _)
create_blocks(s, name, n) ==
    IF s.status # "ok" THEN s
    ELSE IF n = 0 THEN let_blocks(s, name, <<>>)
    ELSE LET s1 == create_blocks(s, name, n - 1)
         IN let_blocks([s1 EXCEPT !.blocks = Append(@, EmptyBlock)], name,
                       Append(blocks_of(s1, name), Len(s1.blocks) + 1))

\* let name = builder.append_block_param(blk, ..)
append_block_param(s, blk, name) ==
    IF s.status # "ok" THEN s
    ELSE let_values([s EXCEPT !.blocks[block(s, blk)].params = @ + 1], name,
                    <<BlockParam(block(s, blk),
                                 s.blocks[block(s, blk)].params + 1)>>)

define_var(s, var, name) ==
    IF s.status # "ok" THEN s
    ELSE [s EXCEPT !.vars = (var :> value(s, name)) @@ @]

\* for v in vars: append_block_param(blk) and define_var(v, value)
RECURSIVE append_block_params(_, _, _)
append_block_params(s, blk, names) ==
    IF names = <<>> THEN s
    ELSE append_block_params(
             define_var(append_block_param(s, blk, "value"), Head(names),
                        "value"),
             blk, Tail(names))

let_current_block(s, name) == let_blocks(s, name, <<s.cur>>)

switch_to_block(s, blk) ==
    IF s.status # "ok" THEN s ELSE [s EXCEPT !.cur = block(s, blk)]

set_value_type(s, name) ==
    IF s.status # "ok" THEN s
    ELSE [s EXCEPT !.exceptions = @ \cup {value(s, name)}]

\* let results = inst_results(builder.ins().op(..)): the instruction is
\* appended to the current block, its results are held by the locals `lets`
ins(s, op, name, args, dests, bargs, lets) ==
    IF s.status # "ok" THEN s
    ELSE LET i == Len(s.blocks[s.cur].insts) + 1
             emitted ==
                 [s EXCEPT !.blocks[s.cur].insts =
                     Append(@, [op |-> op, name |-> name,
                                args |-> all_values(s, args),
                                dests |-> all_blocks(s, dests),
                                bargs |-> all_values(s, bargs),
                                at |-> Emitted(s)])]
         IN [emitted EXCEPT !.frames[Len(s.frames)].v =
                [n \in {lets[r] : r \in 1..Len(lets)} |->
                    <<InstResult(s.cur, i,
                                 (CHOOSE r \in 1..Len(lets) : lets[r] = n)
                                 - 1)>>] @@ @]

is_terminated(blk) ==
    /\ blk.insts # <<>>
    /\ blk.insts[Len(blk.insts)].op \in Terminators

is_current_block_terminated(s) == is_terminated(s.blocks[s.cur])

is_block_empty(s, blk) == s.blocks[block(s, blk)].insts = <<>>

remove_block(s, blk) == [s EXCEPT !.blocks[block(s, blk)].removed = TRUE]

\* anyhow::Result: Err after reporter.show_error, and a panic
\* nothing is shown
show_error_silent(s) == s
show_error(s) == [s EXCEPT !.diagnostics = @ + 1]
Err(s) == [s EXCEPT !.status = "err"]
Panic(s) == IF s.status # "ok" THEN s ELSE [s EXCEPT !.status = "panic"]

\* --------------------------------------------------------------- values
\* let name = self.ssa_value(builder, e)?
ssa_value(s, e, name) ==
    IF s.status # "ok" THEN s
    ELSE CASE e.k = "Var" ->
                IF e.op \in DOMAIN s.vars
                THEN let_values(s, name, <<s.vars[e.op]>>)
                ELSE Err(show_error(s))
           [] e.k = "Literal" -> ins(s, "const", e.op, <<>>, <<>>, <<>>,
                                     <<name>>)
           [] OTHER -> Panic(s)

\* let name = self.ssa_values(builder, es)?
RECURSIVE ssa_values(_, _, _)
ssa_values(s, es, name) ==
    IF s.status # "ok" THEN s
    ELSE IF es = <<>> THEN let_values(s, name, <<>>)
    ELSE LET s1 == ssa_value(ssa_values(s, SubSeq(es, 1, Len(es) - 1), name),
                             es[Len(es)], "value")
         IN IF s1.status # "ok" THEN s1
            ELSE let_values(s1, name, values(s1, name) \o values(s1, "value"))

\* let argv = args.drain(..).rfold(nil, cons): nil first, then one cons per
\* element, from the last element to the first
RECURSIVE cons_down(_, _, _, _)
cons_down(s, args, n, argv) ==
    IF s.status # "ok" \/ n = 0 THEN s
    ELSE cons_down(
             ins(let_values(s, "hd", <<values(s, args)[n]>>), "cons", "",
                 <<"hd", argv>>, <<>>, <<>>, <<argv>>),
             args, n - 1, argv)

list_of(s, args, argv) ==
    IF s.status # "ok" THEN s
    ELSE cons_down(ins(s, "nil", "", <<>>, <<>>, <<>>, <<argv>>), args,
                   Len(values(s, args)), argv)

\* if let Some(ret) = rets.first() { define_var(ret, value) }
define_first(s, rets, name) ==
    IF rets = <<>> THEN s ELSE define_var(s, rets[1], name)

\* let name = self.fail_context().block()
let_fail_block(s, name) ==
    IF s.status # "ok" THEN s
    ELSE let_blocks(s, name, <<fail_context(s).block>>)

\* ------------------------------------------------------------ Call, Enter
\* the call to a local closure: make_fun, its own failure block, and the
\* direct call (`how` is "call" or "enter") with the fun as last argument
closure_call(s, call, how) ==
    LET callee == call.sub[1]
        s1 == ssa_values(s, Tail(callee.args), "env")
        s2 == ins(s1, "make_fun", callee.args[1].op, <<"env">>, <<>>, <<>>,
                  <<"is_err", "fun">>)
        s3 == let_current_block(s2, "current_block")
        s4 == create_block(s3, "make_fun_failed")
        s5 == append_block_param(s4, "make_fun_failed", "exception")
        s6 == ins(s5, "br_if", "", <<"is_err">>, <<"make_fun_failed">>,
                  <<"fun">>, <<>>)
        s7 == switch_to_block(s6, "make_fun_failed")
        s8 == ins(s7, "ret_err", "", <<"exception">>, <<>>, <<>>, <<>>)
        s9 == switch_to_block(s8, "current_block")
        s10 == ssa_values(s9, call.args, "args")
    IN IF callee.args = <<>> \/ callee.args[1].k # "Local" THEN Panic(s)
       ELSE ins(s10, how, callee.args[1].op, <<"args", "fun">>, <<>>, <<>>,
                <<"is_err", "result">>)

\* the instructions of a call up to and including the call itself
call_inst(s, call, how) ==
    LET callee == call.sub[1] IN
    CASE callee.k = "Bif" -> closure_call(s, call, how)
      [] callee.k \in {"Local", "Remote"} ->
           ins(ssa_values(s, call.args, "args"), how, callee.op, <<"args">>,
               <<>>, <<>>, <<"is_err", "result">>)
      [] callee.k = "RemoteDynamic" ->
           LET s1 == ssa_value(s, callee.sub[1], "module")
               s2 == ssa_value(s1, callee.sub[2], "function")
               s3 == ssa_values(s2, call.args, "args")
               s4 == list_of(s3, "args", "argv")
           IN ins(s4, how, "erlang:apply/3", <<"module", "function", "argv">>,
                  <<>>, <<>>, <<"is_err", "result">>)
      [] callee.k = "Var" ->
           LET s1 == ssa_value(s, callee, "callee")
               s2 == ssa_values(s1, call.args, "args")
           IN IF callee.ann = "closure"
              THEN ins(s2, IF how = "call" THEN "call_indirect"
                           ELSE "enter_indirect",
                       "", <<"callee", "args">>, <<>>, <<>>,
                       <<"is_err", "result">>)
              ELSE ins(list_of(s2, "args", "argv"), how, "erlang:apply/2",
                       <<"callee", "argv">>, <<>>, <<>>,
                       <<"is_err", "result">>)
      [] OTHER -> Panic(s)

\* LowerFunctionToSsa::lower_call
lower_call(s, call) ==
    IF fail_context(s).kind = "Guard" THEN Panic(s)
    ELSE LET s1 == call_inst(let_fail_block(enter(s), "landing_pad"), call,
                             "call")
             s2 == IF Len(call.ret) >= 2 THEN Panic(s1)
                   ELSE define_first(s1, call.ret, "result")
         IN leave(ins(s2, "br_if", "", <<"is_err">>, <<"landing_pad">>,
                      <<"result">>, <<>>))

\* LowerFunctionToSsa::lower_enter
lower_enter(s, call) ==
    IF fail_context(s).kind # "Uncaught" THEN Panic(s)
    ELSE leave(call_inst(enter(s), call, "enter"))

\* ------------------------------------------------------------------- Bif
\* FunctionName::is_primop, is_exception_op, is_safe
ExceptionOps == {"throw", "error", "exit", "raise"}
PrimOps ==
    {"make_fun", "unpack_env", "remove_message", "recv_next",
     "recv_peek_message", "recv_wait_timeout", "build_stacktrace",
     "nif_start", "match_fail", "bs_primop"} \cup ExceptionOps
SafeBifs == {"self", "node"}

is_primop(op) == op \in PrimOps
is_exception_op(op) == op \in ExceptionOps
is_safe(op) == op \in SafeBifs

\* the error sent to the failure block of the function, whatever the context
br_if_err_to_ultimate_failure(s, is_err, result) ==
    ins(let_blocks(s, "fail", <<s.ultimate_failure>>), "br_if", "",
        <<is_err>>, <<"fail">>, <<result>>, <<>>)

\* let fail = self.fail_context(); br_if(is_err, fail.block(), &[result])
br_if_err(s, is_err, result) ==
    ins(let_fail_block(s, "fail"), "br_if", "", <<is_err>>, <<"fail">>,
        <<result>>, <<>>)

\* how an exception that was just built leaves the current block
raise(s, guard_allowed) ==
    IF s.status # "ok" THEN s
    ELSE CASE fail_context(s).kind = "Uncaught" ->
                ins(s, "ret", "", <<"is_err", "exception">>, <<>>, <<>>,
                    <<>>)
           [] fail_context(s).kind = "Catch" ->
                ins(let_fail_block(s, "fail"), "br", "", <<>>, <<"fail">>,
                    <<"exception">>, <<>>)
           [] OTHER ->
                IF guard_allowed
                THEN ins(let_fail_block(s, "fail"), "br", "", <<>>,
                         <<"fail">>, <<>>, <<>>)
                ELSE Panic(s)

\* the exception is bound to the ret variable and typed Exception
define_exception(s, rets) ==
    IF rets = <<>> THEN s
    ELSE set_value_type(define_var(s, rets[1], "exception"), "exception")

\* set_element_mut(tuple, i, value) for every value of `elements`, in order
RECURSIVE set_elements(_, _, _, _)
set_elements(s, tuple, elements, n) ==
    IF s.status # "ok" \/ n = 0 THEN s
    ELSE ins(let_values(set_elements(s, tuple, elements, n - 1), "element",
                        <<values(s, elements)[n]>>),
             "set_element_mut", "", <<tuple, "element">>, <<>>, <<>>, <<>>)

\* let tuple = tuple_imm(n) and its elements
tuple_of(s, elements, tuple) ==
    IF s.status # "ok" THEN s
    ELSE set_elements(ins(s, "tuple_imm", "", <<>>, <<>>, <<>>, <<tuple>>),
                      tuple, elements, Len(values(s, elements)))

\* 1178: builder.ins().call(callee, &[], span)
recv_wait_timeout_args(args) == <<>>

\* every match_fail built as the regular one, {Type, Reason}
match_fail_regular(s, bif) ==
    IF Len(bif.args) # 2 THEN Panic(s)
    ELSE LET s1 == ssa_value(s, bif.args[2], "reason")
             s2 == ssa_value(s1, bif.args[1], "ty")
             s3 == let_all(s2, "elements", <<"ty", "reason">>)
             s4 == tuple_of(s3, "elements", "error")
         IN ins(s4, "call", "erlang:error/1", <<"error">>, <<>>, <<>>,
                <<"is_err", "exception">>)

\* the arguments of match_fail as one exception term, and the call of
\* erlang:error/1 on it
match_fail_call(s, bif) ==
    LET kind == bif.args[1].op IN
    CASE bif.args[1].k = "Literal" /\ kind = "function_clause" ->
           LET s1 == ssa_value(s, bif.args[1], "ty")
               s2 == ssa_values(s1, Tail(bif.args), "args")
               s3 == list_of(s2, "args", "argv")
               s4 == ins(s3, "atom", "module", <<>>, <<>>, <<>>, <<"module">>)
               s5 == ins(s4, "atom", "function", <<>>, <<>>, <<>>,
                         <<"function">>)
               s6 == ins(s5, "nil", "", <<>>, <<>>, <<>>, <<"meta">>)
               s7 == let_all(s6, "elements", <<"module", "function", "argv", "meta">>)
               s8 == tuple_of(s7, "elements", "reason")
               s9 == let_all(s8, "elements", <<"ty", "reason">>)
               s10 == tuple_of(s9, "elements", "error")
           IN ins(s10, "call", "erlang:error/1", <<"error">>, <<>>, <<>>,
                  <<"is_err", "exception">>)
      [] bif.args[1].k = "Literal" /\ kind = "case_clause" ->
           LET s1 == ssa_value(s, bif.args[1], "ty")
               s2 == ssa_values(s1, Tail(bif.args), "args")
               s3 == list_of(s2, "args", "argv")
               s4 == let_all(s3, "elements", <<"ty", "argv">>)
               s5 == tuple_of(s4, "elements", "error")
           IN ins(s5, "call", "erlang:error/1", <<"error">>, <<>>, <<>>,
                  <<"is_err", "exception">>)
      [] OTHER ->
           IF Len(bif.args) # 2 THEN Panic(s)
           ELSE LET s1 == ssa_value(s, bif.args[2], "reason")
                    s2 == ssa_value(s1, bif.args[1], "ty")
                    s3 == let_all(s2, "elements", <<"ty", "reason">>)
                    s4 == tuple_of(s3, "elements", "error")
                IN ins(s4, "call", "erlang:error/1", <<"error">>, <<>>, <<>>,
                       <<"is_err", "exception">>)

\* LowerFunctionToSsa::lower_internal (the pass is inside lower_bif's frame)
lower_internal(s, bif) ==
    CASE bif.op = "make_fun" /\ bif.args # <<>> /\ bif.args[1].k = "Local" ->
           LET s1 == ssa_values(s, Tail(bif.args), "env")
               s2 == ins(s1, "make_fun", bif.args[1].op, <<"env">>, <<>>,
                         <<>>, <<"is_err", "result">>)
           IN define_first(br_if_err(s2, "is_err", "result"), bif.ret,
                           "result")
      [] bif.op = "make_fun" ->
           IF Len(bif.args) # 3 THEN Panic(s)
           ELSE LET s1 == ssa_values(s, bif.args, "args")
                    s2 == ins(s1, "call", "erlang:make_fun/3", <<"args">>,
                              <<>>, <<>>, <<"is_err", "result">>)
                IN define_first(br_if_err(s2, "is_err", "result"), bif.ret,
                                "result")
      [] bif.op = "unpack_env" ->
           IF Len(bif.args) # 2 \/ Len(bif.ret) # 1 THEN Panic(s)
           ELSE IF bif.args[2].k # "Literal" THEN Panic(s)
           ELSE define_var(ins(ssa_value(s, bif.args[1], "fun"),
                               "unpack_env", bif.args[2].op, <<"fun">>, <<>>,
                               <<>>, <<"value">>),
                           bif.ret[1], "value")
      [] bif.op \in {"remove_message", "recv_next"} ->
           IF bif.ret # <<>> \/ bif.args # <<>> THEN Panic(s)
           ELSE ins(s, "call", bif.op, <<>>, <<>>, <<>>, <<>>)
      [] bif.op = "recv_peek_message" ->
           IF Len(bif.ret) # 2 THEN Panic(s)
           ELSE define_var(
                    define_var(ins(ssa_values(s, bif.args, "args"), "call",
                                   bif.op, <<"args">>, <<>>, <<>>,
                                   <<"available", "message">>),
                               bif.ret[1], "available"),
                    bif.ret[2], "message")
      [] bif.op = "recv_wait_timeout" ->
           IF Len(bif.args) > 1 \/ Len(bif.ret) # 1 THEN Panic(s)
           ELSE LET s1 == ssa_values(s, recv_wait_timeout_args(bif.args),
                                     "args")
                    s2 == ins(s1, "call", bif.op, <<"args">>, <<>>, <<>>,
                              <<"is_err", "result">>)
                    s3 == define_var(s2, bif.ret[1], "result")
                IN IF fail_context(s).kind = "Guard" THEN Panic(s)
                   ELSE br_if_err(s3, "is_err", "result")
      [] bif.op = "build_stacktrace" ->
           IF Len(bif.args) # 1 \/ Len(bif.ret) # 1 THEN Panic(s)
           ELSE define_var(ins(ssa_values(s, bif.args, "args"), "call",
                               "build_stacktrace", <<"args">>, <<>>, <<>>,
                               <<"trace">>),
                           bif.ret[1], "trace")
      [] bif.op = "nif_start" ->
           IF bif.args # <<>> \/ bif.ret # <<>> THEN Panic(s) ELSE s
      [] bif.op = "match_fail" ->
           IF Len(bif.ret) >= 2 \/ bif.args = <<>> THEN Panic(s)
           ELSE raise(define_exception(match_fail_call(s, bif), bif.ret),
                      TRUE)
      [] is_exception_op(bif.op) ->
           IF Len(bif.ret) >= 2 THEN Panic(s)
           ELSE raise(define_exception(
                          ins(ssa_values(s, bif.args, "args"), "call", bif.op,
                              <<"args">>, <<>>, <<>>,
                              <<"is_err", "exception">>),
                          bif.ret),
                      FALSE)
      [] OTHER ->
           IF Len(bif.ret) > 1 THEN Panic(s)
           ELSE br_if_err(
                    define_first(ins(ssa_values(s, bif.args, "args"), "call",
                                     bif.op, <<"args">>, <<>>, <<>>,
                                     <<"is_err", "result">>),
                                 bif.ret, "result"),
                    "is_err", "result")

\* LowerFunctionToSsa::lower_is_record_bif
lower_is_record_bif(s, bif) ==
    LET s1 == ssa_value(s, bif.args[1], "tuple")
        s2 == ins(s1, "is_type", "tuple", <<"tuple">>, <<>>, <<>>,
                  <<"is_type">>)
        s3 == create_block(s2, "tag_check_block")
        s4 == create_block(s3, "final_block")
        s5 == append_block_param(s4, "final_block", "result")
        s6 == ins(s5, "br_if", "", <<"is_type">>, <<"tag_check_block">>,
                  <<>>, <<>>)
        s7 == ins(s6, "br", "", <<>>, <<"final_block">>, <<"is_type">>, <<>>)
        s8 == ins(switch_to_block(s7, "tag_check_block"), "get_element_imm",
                  "0", <<"tuple">>, <<>>, <<>>, <<"elem">>)
        s9 == ins(s8, "eq_exact_imm", bif.args[2].op, <<"elem">>, <<>>, <<>>,
                  <<"has_tag">>)
        s10 == ins(s9, "br", "", <<>>, <<"final_block">>, <<"has_tag">>,
                   <<>>)
    IN switch_to_block(s10, "final_block")

\* a bif with two ret variables whose error flag is tested all the same
fallible_bif_always_checked(s, is_err, result) == br_if_err(s, is_err, result)

\* 1015-1021: the error flag and the value are bound, nothing is tested
fallible_bif_unchecked(s, is_err, result) == s

\* the rest of lower_bif, once the call is there
bif_results(s, bif) ==
    IF s.status # "ok" THEN s
    ELSE IF is_safe(bif.op)
    THEN IF Len(bif.ret) # 1 THEN Panic(s)
         ELSE define_var(s, bif.ret[1], "result")
    ELSE CASE Len(bif.ret) = 0 -> br_if_err(s, "is_err", "result")
           [] Len(bif.ret) = 1 ->
                define_var(br_if_err(s, "is_err", "result"), bif.ret[1],
                           "result")
           [] Len(bif.ret) = 2 ->
                define_var(
                    define_var(fallible_bif_unchecked(s, "is_err", "result"),
                               bif.ret[1], "is_err"),
                    bif.ret[2], "result")
           [] OTHER -> Panic(s)

\* LowerFunctionToSsa::lower_bif
lower_bif(s, bif) ==
    IF is_primop(bif.op) THEN leave(lower_internal(enter(s), bif))
    ELSE IF /\ bif.op = "is_record"
            /\ Len(bif.args) = 3
            /\ bif.args[2].k = "Literal"
            /\ bif.args[3].k = "Literal"
    THEN leave(lower_is_record_bif(enter(s), bif))
    ELSE leave(bif_results(
                   ins(ssa_values(enter(s), bif.args, "args"), "call", bif.op,
                       <<"args">>, <<>>, <<>>, <<"is_err", "result">>),
                   bif))

\* ------------------------------------------------------------------- Put
\* one pair of lower_map's loop: the locals `map`, `pairs` (keys and values
\* in turn) are those of lower_put
lower_map_pair(s, op, i) ==
    IF s.status # "ok" THEN s
    ELSE LET s1 == let_values(
                       let_values(s, "key", <<values(s, "pairs")[2 * i - 1]>>),
                       "val", <<values(s, "pairs")[2 * i]>>)
         IN IF op = "Assoc"
            THEN ins(s1, "call", IF i = 1 THEN "map_put" ELSE "map_put_mut",
                     <<"map", "key", "val">>, <<>>, <<>>, <<"map">>)
            ELSE br_if_err(
                     ins(s1, "call",
                         IF i = 1 THEN "map_update" ELSE "map_update_mut",
                         <<"map", "key", "val">>, <<>>, <<>>,
                         <<"is_err", "map">>),
                     "is_err", "map")

RECURSIVE lower_map_pairs(_, _, _)
lower_map_pairs(s, op, n) ==
    IF n = 0 THEN s
    ELSE lower_map_pair(lower_map_pairs(s, op, n - 1), op, n)

\* LowerFunctionToSsa::lower_map
lower_map(s, retv, op, n) == define_var(lower_map_pairs(s, op, n), retv, "map")

\* the keys and values of the pairs of a Map, in order
RECURSIVE map_pairs(_, _, _)
map_pairs(s, pairs, n) ==
    IF n = 0 THEN let_values(s, "pairs", <<>>)
    ELSE let_all(
             ssa_value(ssa_value(map_pairs(s, pairs, n - 1), pairs[n].args[1],
                                 "key"),
                       pairs[n].args[2], "val"),
             "pairs", <<"pairs", "key", "val">>)

\* one segment of lower_binary's loop; the local `bin` is the builder
lower_segment(s, segment) ==
    LET s1 == ssa_values(s, segment.args, "args")
        s2 == ins(s1, "bs_push", segment.op, <<"bin", "args">>, <<>>, <<>>,
                  <<"is_err", "bin2">>)
        s3 == ins(s2, "br_if", "", <<"is_err">>, <<"fail">>, <<"bin2">>,
                  <<>>)
    IN ins(s3, "cast", "", <<"bin2">>, <<>>, <<>>, <<"bin">>)

RECURSIVE lower_segments(_, _)
lower_segments(s, segment) ==
    IF s.status # "ok" THEN s
    ELSE CASE segment.k = "BinarySegment" ->
                lower_segments(lower_segment(s, segment), segment.sub[1])
           [] segment.k = "BinaryEnd" -> s
           [] OTHER -> Panic(s)

\* LowerFunctionToSsa::lower_binary
lower_binary(s, retv, segment) ==
    LET s1 == ins(let_fail_block(s, "fail"), "call", "bs_init", <<>>, <<>>,
                  <<>>, <<"is_err", "bin">>)
        s2 == ins(s1, "br_if", "", <<"is_err">>, <<"fail">>, <<"bin">>, <<>>)
        s3 == ins(s2, "cast", "", <<"bin">>, <<>>, <<>>, <<"bin">>)
        s4 == ins(lower_segments(s3, segment), "call", "bs_finish",
                  <<"bin">>, <<>>, <<>>, <<"is_err", "result">>)
        s5 == ins(s4, "br_if", "", <<"is_err">>, <<"fail">>, <<"result">>,
                  <<>>)
    IN define_var(s5, retv, "result")

\* LowerFunctionToSsa::lower_put
lower_put(s, expr) ==
    LET retv == expr.ret[1]
        arg == expr.sub[1]
    IN
    CASE arg.k = "Cons" ->
           leave(define_var(
                     ins(ssa_values(enter(s), arg.args, "args"), "cons", "",
                         <<"args">>, <<>>, <<>>, <<"list">>),
                     retv, "list"))
      [] arg.k = "Tuple" ->
           leave(define_var(
                     tuple_of(ssa_values(enter(s), arg.args, "elements"),
                              "elements", "tuple"),
                     retv, "tuple"))
      [] arg.k = "Binary" -> leave(lower_binary(enter(s), retv, arg.sub[1]))
      [] arg.k = "Map" ->
           leave(lower_map(
                     map_pairs(ssa_value(enter(s), arg.args[1], "map"),
                               arg.sub, Len(arg.sub)),
                     retv, arg.op, Len(arg.sub)))
      [] OTHER ->
           leave(define_var(ssa_value(enter(s), arg, "value"), retv, "value"))

\* ------------------------------------------------------------ Test
\* LowerFunctionToSsa::lower_test_is_record; `fail` is a local of the caller
lower_test_is_record(s, tag) ==
    LET s1 == ins(s, "is_type", "tuple", <<"tuple">>, <<>>, <<>>,
                  <<"is_type">>)
        s2 == ins(s1, "br_unless", "", <<"is_type">>, <<"fail">>, <<>>, <<>>)
        s3 == ins(s2, "cast", "", <<"tuple">>, <<>>, <<>>, <<"tuple">>)
        s4 == ins(s3, "get_element_imm", "0", <<"tuple">>, <<>>, <<>>,
                  <<"elem">>)
        s5 == ins(s4, "atom", tag, <<>>, <<>>, <<>>, <<"tag">>)
        s6 == ins(s5, "eq_exact", "", <<"elem", "tag">>, <<>>, <<>>,
                  <<"has_tag">>)
    IN ins(s6, "br_unless", "", <<"has_tag">>, <<"fail">>, <<>>, <<>>)

\* LowerFunctionToSsa::lower_test; the local `fail` holds the fail block
lower_test(s, test) ==
    IF /\ test.op = "is_record"
       /\ Len(test.args) = 3
       /\ test.args[2].k = "Literal"
       /\ test.args[3].k = "Literal"
    THEN lower_test_is_record(ssa_value(s, test.args[1], "tuple"),
                              test.args[2].op)
    ELSE ins(ins(ssa_values(s, test.args, "args"), "call", test.op,
                 <<"args">>, <<>>, <<>>, <<"is_err", "result">>),
             "br_unless", "", <<"result">>, <<"fail">>, <<>>, <<>>)

\* ------------------------------------------------- stacks of the pass
Top(stack) == stack[Len(stack)]
Pop(stack) == IF stack = <<>> THEN stack ELSE SubSeq(stack, 1, Len(stack) - 1)

\* the blocks are named by the locals that hold them
push_brk(s, blk) ==
    IF s.status # "ok" THEN s ELSE [s EXCEPT !.brk = Append(@, block(s, blk))]
pop_brk(s) == [s EXCEPT !.brk = Pop(@)]
push_landing_pad(s, blk) ==
    IF s.status # "ok" THEN s
    ELSE [s EXCEPT !.landing_pads = Append(@, block(s, blk))]
pop_landing_pad(s) == [s EXCEPT !.landing_pads = Pop(@)]
\* self.fail left as it is
set_fail_skipped(s, b) == s
\* self.fail = b
set_fail(s, b) == [s EXCEPT !.fail = b]
insert_label(s, label, blk) ==
    IF s.status # "ok" THEN s
    ELSE [s EXCEPT !.labels = (label :> block(s, blk)) @@ @]
remove_label(s, label) ==
    [s EXCEPT !.labels = [l \in (DOMAIN @) \ {label} |-> @[l]]]
enter_guard(s, b) == [s EXCEPT !.guards = Append(@, b)]
leave_guard(s) == [s EXCEPT !.guards = Pop(@)]
\* the blocks of a Catch, in the order the Catch forms are lowered
note_catch(s) ==
    IF s.status # "ok" THEN s
    ELSE [s EXCEPT !.catches =
             Append(@, [handler |-> block(s, "handler_block"),
                        result |-> block(s, "result_block"),
                        exit |-> block(s, "exit_block")])]
\* the type clause being lowered and the part of it
select_enter(s, ty, type_fail, value_fail) ==
    [s EXCEPT !.selects = Append(@, [ty |-> ty, type_fail |-> type_fail,
                                     value_fail |-> value_fail,
                                     part |-> "type"])]
select_leave(s) == [s EXCEPT !.selects = SubSeq(@, 1, Len(@) - 1)]
select_part(s, part) ==
    IF s.selects = <<>> THEN s
    ELSE [s EXCEPT !.selects[Len(s.selects)].part = part]
enter_protected(s) == [s EXCEPT !.protected = @ + 1]
leave_protected(s) == [s EXCEPT !.protected = @ - 1]

\* builder.switch_to_block(b), the block given by its number
switch_to(s, b) == IF s.status # "ok" THEN s ELSE [s EXCEPT !.cur = b]

\* let name = builder.var(var).unwrap()
let_var(s, name, var) ==
    IF s.status # "ok" THEN s
    ELSE IF var \notin DOMAIN s.vars THEN Panic(s)
    ELSE let_values(s, name, <<s.vars[var]>>)

\* for (evar, part) in evars.zip(names): define_var(evar, part)
RECURSIVE define_some(_, _, _)
define_some(s, evars, names) ==
    IF evars = <<>> \/ names = <<>> THEN s
    ELSE define_some(define_var(s, Head(evars), Head(names)), Tail(evars),
                     Tail(names))

\* let handler_block: the handler block of Try, TryEnter, with its Exception
\* parameter and the evars; the handler block is the current block afterwards
handler_block_of(s, evars) ==
    LET s1 == create_block(s, "handler_block")
        s2 == append_block_param(s1, "handler_block", "exception")
        s3 == set_value_type(s2, "exception")
        s4 == ins(switch_to_block(s3, "handler_block"), "exception_class", "",
                  <<"exception">>, <<>>, <<>>, <<"class">>)
        s5 == ins(s4, "exception_reason", "", <<"exception">>, <<>>, <<>>,
                  <<"reason">>)
        s6 == ins(s5, "exception_trace", "", <<"exception">>, <<>>, <<>>,
                  <<"trace">>)
    IN define_some(s6, evars, <<"class", "reason", "trace">>)

\* the value clauses in the order of the source
sort_skipped(clauses) == clauses

\* the value clauses of a Tuple type clause ordered by ascending arity
\* (sort_by_key is stable)
RECURSIVE sort_by_arity(_)
sort_by_arity(clauses) ==
    IF clauses = <<>> THEN <<>>
    ELSE LET least == CHOOSE i \in 1..Len(clauses) :
                         /\ \A j \in 1..Len(clauses) :
                               Len(clauses[i].args[1].args) <=
                               Len(clauses[j].args[1].args)
                         /\ \A j \in 1..(i - 1) :
                               Len(clauses[j].args[1].args) >
                               Len(clauses[i].args[1].args)
         IN <<clauses[least]>> \o
            sort_by_arity([j \in 1..(Len(clauses) - 1) |->
                              IF j < least THEN clauses[j]
                              ELSE clauses[j + 1]])

\* the arities of the arms of the switch, in order: "1,2,"
RECURSIVE arities(_)
arities(clauses) ==
    IF clauses = <<>> THEN ""
    ELSE ToString(Len(Head(clauses).args[1].args)) \o "," \o
         arities(Tail(clauses))

duplicate_arity(clauses) ==
    \E i, j \in 1..Len(clauses) :
       /\ i # j
       /\ Len(clauses[i].args[1].args) = Len(clauses[j].args[1].args)

\* get_element_imm for every element of the tuple pattern that is used, on
\* the local `tuple`
RECURSIVE bind_elements(_, _, _)
bind_elements(s, elements, n) ==
    IF n = 0 THEN s
    ELSE IF elements[n].ann = "unused"
    THEN bind_elements(s, elements, n - 1)
    ELSE define_var(
             ins(bind_elements(s, elements, n - 1), "get_element_imm",
                 ToString(n - 1), <<"tuple">>, <<>>, <<>>, <<"elem">>),
             elements[n].op, "elem")

\* ------------------------------------------------- the expression forms
RECURSIVE lower(_, _)
RECURSIVE lower_match(_, _, _)
RECURSIVE lower_select(_, _, _, _, _)
RECURSIVE lower_guard_expr(_, _, _)
RECURSIVE lower_types(_, _, _, _, _)
RECURSIVE lower_clauses(_, _, _)
RECURSIVE lower_values(_, _, _, _)
RECURSIVE lower_arms(_, _, _, _)
RECURSIVE select_segments(_, _, _)
RECURSIVE select_map_pairs(_, _, _)
RECURSIVE select_map_values(_, _, _)
RECURSIVE select_literal_values(_, _, _, _)

\* the extra pop at the end of lower_try_enter
try_enter_end(s) == pop_landing_pad(s)

\* after Match: the break block is removed when nothing is returned and it
\* holds no instruction, else lowering goes on in it
after_match(s, retv) ==
    IF s.status # "ok" THEN s
    ELSE IF retv = <<>> /\ is_block_empty(s, "brk")
    THEN remove_block(s, "brk")
    ELSE switch_to_block(s, "brk")

\* Return and Break when the current block is already terminated: dropped
\* when the value is an exception, an error otherwise
redundant(s, name) ==
    IF value(s, name) \in s.exceptions THEN s ELSE Err(show_error(s))

\* LowerFunctionToSsa::lower_if
lower_if(s, expr) ==
    LET s1 == ssa_value(s, expr.args[1], "cond")
        s2 == create_block(s1, "then_block")
        s3 == create_block(s2, "else_block")
        s4 == create_block(s3, "final_block")
        s5 == append_block_params(s4, "final_block", expr.ret)
        s6 == ins(s5, "cond_br", "", <<"cond">>,
                  <<"then_block", "else_block">>, <<>>, <<>>)
        s7 == lower(push_brk(switch_to_block(s6, "then_block"),
                             "final_block"),
                    expr.sub[1])
        s8 == lower(switch_to_block(s7, "else_block"), expr.sub[2])
    IN pop_brk(switch_to_block(s8, "final_block"))

\* LowerFunctionToSsa::lower_try
lower_try(s, expr) ==
    LET s1 == create_block(let_current_block(s, "current_block"),
                           "body_block")
        s2 == append_block_params(s1, "body_block", expr.vars)
        s3 == create_block(handler_block_of(s2, expr.evars), "final_block")
        s4 == append_block_params(s3, "final_block", expr.ret)
        s5 == push_landing_pad(
                  push_brk(switch_to_block(s4, "current_block"),
                           "body_block"),
                  "handler_block")
        s6 == pop_landing_pad(pop_brk(lower(s5, expr.sub[1])))
        s7 == lower(push_brk(switch_to_block(s6, "body_block"),
                             "final_block"),
                    expr.sub[2])
        s8 == lower(switch_to_block(s7, "handler_block"), expr.sub[3])
    IN switch_to_block(pop_brk(s8), "final_block")

\* LowerFunctionToSsa::lower_try_enter
lower_try_enter(s, expr) ==
    LET s1 == create_block(let_current_block(s, "current_block"),
                           "body_block")
        s2 == append_block_params(s1, "body_block", expr.vars)
        s3 == handler_block_of(s2, expr.evars)
        s4 == push_landing_pad(
                  push_brk(switch_to_block(s3, "current_block"),
                           "body_block"),
                  "handler_block")
        s5 == pop_landing_pad(pop_brk(lower(s4, expr.sub[1])))
        s6 == lower(switch_to_block(s5, "body_block"), expr.sub[2])
        s7 == lower(switch_to_block(s6, "handler_block"), expr.sub[3])
    IN try_enter_end(s7)

\* the handler block of lower_catch
catch_handler(s) ==
    LET h1 == ins(switch_to_block(s, "handler_block"), "exception_class", "",
                  <<"exception">>, <<>>, <<>>, <<"class">>)
        h2 == ins(h1, "exception_reason", "", <<"exception">>, <<>>, <<>>,
                  <<"reason">>)
        h3 == ins(h2, "eq_exact_imm", "throw", <<"class">>, <<>>, <<>>,
                  <<"is_throw">>)
        h4 == ins(h3, "br_if", "", <<"is_throw">>, <<"result_block">>,
                  <<"reason">>, <<>>)
        h5 == ins(h4, "eq_exact_imm", "exit", <<"class">>, <<>>, <<>>,
                  <<"is_exit">>)
        h6 == ins(h5, "br_if", "", <<"is_exit">>, <<"exit_block">>,
                  <<"reason">>, <<>>)
        h7 == ins(h6, "exception_trace", "", <<"exception">>, <<>>, <<>>,
                  <<"trace">>)
        h8 == tuple_of(let_all(h7, "elements", <<"reason", "trace">>),
                       "elements", "error_reason")
    IN ins(h8, "br", "", <<>>, <<"exit_block">>, <<"error_reason">>, <<>>)

\* the exit block of lower_catch
catch_exit(s) ==
    LET x1 == ins(switch_to_block(s, "exit_block"), "tuple_imm", "", <<>>,
                  <<>>, <<>>, <<"wrapped_reason">>)
        x2 == ins(x1, "set_element_mut_imm", "EXIT", <<"wrapped_reason">>,
                  <<>>, <<>>, <<>>)
        x3 == ins(x2, "set_element_mut", "",
                  <<"wrapped_reason", "exit_reason">>, <<>>, <<>>, <<>>)
    IN ins(x3, "br", "", <<>>, <<"result_block">>, <<"wrapped_reason">>,
           <<>>)

\* LowerFunctionToSsa::lower_catch
lower_catch(s, expr) ==
    IF Len(expr.ret) # 1 THEN Panic(s)
    ELSE
    LET s1 == create_block(let_current_block(s, "current_block"),
                           "handler_block")
        s2 == append_block_param(s1, "handler_block", "exception")
        s3 == create_block(set_value_type(s2, "exception"), "result_block")
        s4 == append_block_param(s3, "result_block", "result")
        s5 == define_var(s4, expr.ret[1], "result")
        s6 == create_block(s5, "exit_block")
        s7 == append_block_param(s6, "exit_block", "exit_reason")
        s8 == catch_exit(catch_handler(note_catch(s7)))
        s9 == push_landing_pad(
                  push_brk(switch_to_block(s8, "current_block"),
                           "result_block"),
                  "handler_block")
    IN switch_to_block(pop_landing_pad(pop_brk(lower(s9, expr.sub[1]))),
                       "result_block")

\* Return, once its value is there
lower_return(s) ==
    IF s.status # "ok" THEN s
    ELSE IF is_current_block_terminated(s) THEN redundant(s, "value")
    ELSE ins(s, "ret_ok", "", <<"value">>, <<>>, <<>>, <<>>)

\* Break, once its arguments are there
lower_break(s) ==
    IF s.status # "ok" THEN s
    ELSE IF is_current_block_terminated(s)
    THEN IF Len(values(s, "args")) # 1 THEN Panic(s)
         ELSE redundant(s, "args")
    ELSE IF s.brk = <<>> THEN Panic(s)
    ELSE ins(let_blocks(s, "brk", <<Top(s.brk)>>), "br", "", <<>>, <<"brk">>,
             <<"args">>, <<>>)

\* Goto, once its arguments are there
lower_goto(s, label) ==
    IF s.status # "ok" THEN s
    ELSE ins(let_blocks(s, "target", <<s.labels[label]>>), "br", "", <<>>,
             <<"target">>, <<"args">>, <<>>)

\* Expr::Match of lower
lower_match_expr(s, expr) ==
    LET s1 == create_block(s, "brk")
        s2 == append_block_params(s1, "brk", expr.ret)
        s3 == lower_match(push_brk(s2, "brk"), s.fail, expr.sub[1])
    IN after_match(pop_brk(s3), expr.ret)

\* Expr::LetRecGoto of lower
lower_letrec_goto(s, expr) ==
    LET s1 == create_block(s, "then_block")
        s2 == create_block(append_block_params(s1, "then_block", expr.vars),
                           "final_block")
        s3 == append_block_params(s2, "final_block", expr.ret)
        s4 == push_brk(insert_label(s3, expr.op, "then_block"),
                       "final_block")
        s5 == lower(s4, expr.sub[1])
        s6 == lower(switch_to_block(s5, "then_block"), expr.sub[2])
    IN switch_to_block(pop_brk(remove_label(s6, expr.op)), "final_block")

\* LowerFunctionToSsa::lower
lower(s, expr) ==
    IF s.status # "ok" THEN s
    ELSE
    CASE expr.k = "Match" -> leave(lower_match_expr(enter(s), expr))
      [] expr.k = "If" -> leave(lower_if(enter(s), expr))
      [] expr.k = "Seq" -> lower(lower(s, expr.sub[1]), expr.sub[2])
      [] expr.k = "Call" -> lower_call(s, expr)
      [] expr.k = "Enter" -> lower_enter(s, expr)
      [] expr.k = "Bif" -> lower_bif(s, expr)
      [] expr.k = "Try" -> leave(lower_try(enter(s), expr))
      [] expr.k = "TryEnter" -> leave(lower_try_enter(enter(s), expr))
      [] expr.k = "Catch" -> leave(lower_catch(enter(s), expr))
      [] expr.k = "Put" -> lower_put(s, expr)
      [] expr.k = "Return" ->
           IF Len(expr.args) # 1 THEN Panic(s)
           ELSE leave(lower_return(ssa_value(enter(s), expr.args[1],
                                             "value")))
      [] expr.k = "Break" ->
           leave(lower_break(ssa_values(enter(s), expr.args, "args")))
      [] expr.k = "LetRecGoto" -> leave(lower_letrec_goto(enter(s), expr))
      [] expr.k = "Goto" ->
           IF expr.op \notin DOMAIN s.labels THEN Panic(s)
           ELSE leave(lower_goto(ssa_values(enter(s), expr.args, "args"),
                                 expr.op))
      [] OTHER -> Panic(s)

\* the type clauses of a Select, each with the block of the next as type_fail
lower_types(s, var, types, blocks, fail) ==
    IF types = <<>> \/ s.status # "ok" THEN s
    ELSE lower_types(
             switch_to(lower_select(s, var, Head(types), Head(blocks), fail),
                       Head(blocks)),
             var, Tail(types), Tail(blocks), fail)

\* LowerFunctionToSsa::lower_guard
lower_guard(s, clause, fail) ==
    lower_match(
        leave_guard(lower_guard_expr(enter_guard(s, fail), fail,
                                     clause.sub[1])),
        fail, clause.sub[2])

\* the clauses of a Guard, each with the block of the next as fail
lower_clauses(s, clauses, blocks) ==
    IF clauses = <<>> \/ s.status # "ok" THEN s
    ELSE lower_clauses(
             switch_to(lower_guard(s, Head(clauses), Head(blocks)),
                       Head(blocks)),
             Tail(clauses), Tail(blocks))

\* Alt of lower_match
lower_alt(s, fail, body) ==
    IF s.status # "ok" THEN s
    ELSE lower_match(
             switch_to_block(lower_match(s, block(s, "then_blk"),
                                         body.sub[1]),
                             "then_blk"),
             fail, body.sub[2])

\* Select of lower_match, its blocks created
lower_select_types(s, fail, body) ==
    IF s.status # "ok" THEN s
    ELSE lower_types(s, body.op, body.sub,
                     Append(blocks_of(s, "blocks"), fail), fail)

\* Guard of lower_match, its blocks created
lower_guard_clauses(s, fail, body) ==
    IF s.status # "ok" THEN s
    ELSE lower_clauses(s, body.sub, Append(blocks_of(s, "blocks"), fail))

\* LowerFunctionToSsa::lower_match
lower_match(s, fail, body) ==
    IF s.status # "ok" THEN s
    ELSE
    CASE body.k = "Alt" ->
           leave(lower_alt(create_block(enter(s), "then_blk"), fail, body))
      [] body.k = "Select" ->
           leave(lower_select_types(
                     create_blocks(enter(s), "blocks", Len(body.sub) - 1),
                     fail, body))
      [] body.k = "Guard" ->
           leave(lower_guard_clauses(
                     create_blocks(enter(s), "blocks", Len(body.sub) - 1),
                     fail, body))
      [] OTHER -> lower(s, body)

\* is this the try of a guard: no variables, both bodies a Break of nothing
is_guard_try(guard) ==
    /\ guard.k = "Try"
    /\ guard.vars = <<>>
    /\ guard.evars = <<>>
    /\ guard.sub[2].k = "Break"
    /\ guard.sub[2].args = <<>>
    /\ guard.sub[3].k = "Break"
    /\ guard.sub[3].args = <<>>

\* the try of a guard, its final block created
lower_guard_try(s, fail, guard) ==
    switch_to_block(
        leave_protected(
            set_fail(pop_brk(lower_guard_expr(
                                 enter_protected(
                                     push_brk(set_fail(s, fail),
                                              "final_block")),
                                 fail, guard.sub[1])),
                     s.fail)),
        "final_block")

\* LowerFunctionToSsa::lower_guard_expr
lower_guard_expr(s, fail, guard) ==
    IF s.status # "ok" THEN s
    ELSE
    CASE is_guard_try(guard) ->
           leave(lower_guard_try(create_block(enter(s), "final_block"), fail,
                                 guard))
      [] guard.k = "Test" ->
           leave(lower_test(let_blocks(enter(s), "fail", <<fail>>), guard))
      [] guard.k = "Seq" ->
           lower_guard_expr(lower_guard_expr(s, fail, guard.sub[1]), fail,
                            guard.sub[2])
      [] OTHER -> lower(s, guard)

\* one value clause of an Atom, Float or Int type clause
lower_value(s, clause, n, value_fail) ==
    IF s.status # "ok" THEN s
    ELSE IF clause.args[1].k # "Literal" THEN Panic(s)
    ELSE LET s1 == ssa_value(let_blocks(s, "blk",
                                        <<blocks_of(s, "blocks")[n]>>),
                             clause.args[1], "val")
             s2 == ins(s1, "eq_exact", "", <<"src", "val">>, <<>>, <<>>,
                       <<"is_eq">>)
             s3 == ins(s2, "br_if", "", <<"is_eq">>, <<"blk">>, <<>>, <<>>)
             s4 == lower_match(select_part(switch_to_block(s3, "blk"),
                                           "body"),
                               value_fail, clause.sub[1])
         IN select_part(switch_to_block(s4, "current_block"), "value")

\* the value clauses of an Atom, Float or Int type clause
lower_values(s, clauses, n, value_fail) ==
    IF n = 0 THEN s
    ELSE lower_value(lower_values(s, clauses, n - 1, value_fail), clauses[n],
                     n, value_fail)

\* one arm of a Tuple type clause
lower_arm(s, clause, n, value_fail) ==
    IF s.status # "ok" THEN s
    ELSE lower_match(
             bind_elements(select_part(switch_to(s, blocks_of(s, "blocks")[n]),
                                       "body"),
                           clause.args[1].args, Len(clause.args[1].args)),
             value_fail, clause.sub[1])

\* the arms of a Tuple type clause, in the order of their arity
lower_arms(s, clauses, n, value_fail) ==
    IF n = 0 THEN s
    ELSE lower_arm(lower_arms(s, clauses, n - 1, value_fail), clauses[n], n,
                   value_fail)

\* duplicate arities end the pass: a panic
DuplicateArity(s) == Panic(s)

\* the Tuple type clause of lower_select
lower_select_tuple(s, var, clauses, value_fail) ==
    LET s1 == let_var(create_blocks(s, "blocks", Len(clauses)), "src", var)
        s2 == ins(s1, "call", "tuple_size", <<"src">>, <<>>, <<>>,
                  <<"is_err", "arity">>)
        s3 == ins(s2, "br_if", "", <<"is_err">>, <<"type_fail">>, <<>>, <<>>)
        s4 == ins(s3, "cast", "", <<"src">>, <<>>, <<>>, <<"tuple">>)
        s5 == ins(select_part(s4, "value"), "switch", arities(clauses),
                  <<"arity">>,
                  <<"blocks", "value_fail">>, <<>>, <<>>)
    IN lower_arms(s5, clauses, Len(clauses), value_fail)

\* an Atom, Float or Int type clause of lower_select
lower_select_literal(s, var, clause, value_fail) ==
    LET s1 == let_var(create_blocks(s, "blocks", Len(clause.sub)), "src",
                      var)
        s2 == ins(let_current_block(s1, "current_block"), "is_type",
                  clause.op, <<"src">>, <<>>, <<>>, <<"is_type">>)
        s3 == ins(s2, "br_unless", "", <<"is_type">>, <<"type_fail">>, <<>>,
                  <<>>)
        s4 == lower_values(select_part(s3, "value"), clause.sub,
                           Len(clause.sub), value_fail)
    IN ins(s4, "br", "", <<>>, <<"value_fail">>, <<>>, <<>>)

\* select_tuple_elements is bind_elements, on the local `tuple`

\* LowerFunctionToSsa::select_binary
select_binary(s, var, clause, value_fail) ==
    LET s1 == ins(let_var(s, "src", var), "bs_start_match", "", <<"src">>,
                  <<>>, <<>>, <<"is_err", "bin">>)
        s2 == ins(s1, "br_if", "", <<"is_err">>, <<"type_fail">>, <<>>, <<>>)
        s3 == ins(s2, "cast", "", <<"bin">>, <<>>, <<>>, <<"bin">>)
        s4 == define_var(s3, clause.args[1].sub[1].op, "bin")
    IN lower_match(select_part(s4, "body"), value_fail, clause.sub[1])

\* the size of a segment, when it has one
segment_size(s, segment) ==
    IF Len(segment.args) < 2 THEN let_values(s, "size", <<>>)
    ELSE ssa_value(s, segment.args[2], "size")

\* LowerFunctionToSsa::select_extract_bin, the local `fail` the block given
select_extract_bin(s, segment) ==
    LET s1 == ins(segment_size(s, segment), "bs_match", "",
                  <<"src", "size">>, <<>>, <<>>,
                  <<"is_err", "extracted", "next">>)
    IN ins(s1, "br_if", "", <<"is_err">>, <<"fail">>, <<>>, <<>>)

\* LowerFunctionToSsa::select_extract_int
select_extract_int(s, segment) ==
    IF s.status # "ok" THEN s
    ELSE IF Len(segment.args) < 2 THEN Panic(s)
    ELSE LET s1 == ins(segment_size(s, segment), "bs_match_skip",
                       segment.args[1].op, <<"src", "size">>, <<>>, <<>>,
                       <<"is_err", "next">>)
         IN ins(s1, "br_if", "", <<"is_err">>, <<"fail">>, <<>>, <<>>)

\* LowerFunctionToSsa::select_binary_segment
select_binary_segment(s, clause, fail) ==
    IF s.status # "ok" THEN s
    ELSE
    LET segment == clause.args[1]
        s0 == select_part(let_blocks(s, "fail", <<fail>>), "value")
    IN CASE segment.k = "BinarySegment" ->
              lower_match(
                  select_part(
                      define_var(define_var(select_extract_bin(s0, segment),
                                            segment.vars[1], "next"),
                                 segment.args[1].op, "extracted"),
                      "body"),
                  fail, clause.sub[1])
         [] segment.k = "BinaryInt" /\ segment.args[1].k = "Literal" ->
              lower_match(
                  select_part(
                      define_var(select_extract_int(s0, segment),
                                 segment.vars[1], "next"),
                      "body"),
                  fail, clause.sub[1])
         [] OTHER -> Panic(s)

\* for (value, fail) in values.zip(blocks): the segment, then the fail block
select_segments(s, clauses, blocks) ==
    IF clauses = <<>> \/ s.status # "ok" THEN s
    ELSE select_segments(
             switch_to(select_binary_segment(s, Head(clauses), Head(blocks)),
                       Head(blocks)),
             Tail(clauses), Tail(blocks))

\* the segments with the blocks created for them, type_fail the last
select_segments_blocks(s, clauses, type_fail) ==
    IF s.status # "ok" THEN s
    ELSE select_segments(s, clauses,
                         Append(blocks_of(s, "blocks"), type_fail))

\* LowerFunctionToSsa::select_binary_segments
select_binary_segments(s, var, clauses, type_fail) ==
    select_segments_blocks(
        create_blocks(let_var(s, "src", var), "blocks", Len(clauses) - 1),
        clauses, type_fail)

\* LowerFunctionToSsa::select_binary_end
select_binary_end(s, var, clause, type_fail) ==
    LET s1 == ins(let_var(s, "src", var), "bs_test_tail_imm", "0",
                  <<"src">>, <<>>, <<>>, <<"is_err">>)
        s2 == ins(s1, "br_if", "", <<"is_err">>, <<"type_fail">>, <<>>, <<>>)
    IN lower_match(select_part(s2, "body"), type_fail, clause.sub[1])

\* the pairs of select_map_value: map_fetch of every key
select_map_pairs(s, pairs, n) ==
    IF n = 0 THEN s
    ELSE LET s1 == ssa_value(select_map_pairs(s, pairs, n - 1),
                             pairs[n].args[1], "key")
             s2 == ins(s1, "call", "map_fetch", <<"src", "key">>, <<>>, <<>>,
                       <<"is_err", "result">>)
             s3 == ins(s2, "br_if", "", <<"is_err">>, <<"fail">>, <<>>, <<>>)
         IN define_var(s3, pairs[n].args[2].op, "result")

\* LowerFunctionToSsa::select_map_value
select_map_value(s, clause, value_fail) ==
    IF s.status # "ok" THEN s
    ELSE lower_match(
             select_part(
                 select_map_pairs(
                     select_part(let_blocks(s, "fail", <<value_fail>>),
                                 "value"),
                     clause.args[1].sub, Len(clause.args[1].sub)),
                 "body"),
             value_fail, clause.sub[1])

\* for (value, fail) in values.zip(blocks) of select_map
select_map_values(s, clauses, blocks) ==
    IF clauses = <<>> \/ s.status # "ok" THEN s
    ELSE select_map_values(
             switch_to(select_map_value(s, Head(clauses), Head(blocks)),
                       Head(blocks)),
             Tail(clauses), Tail(blocks))

\* the values with the blocks created for them, type_fail the last
select_map_blocks_type_fail(s, clauses, value_fail) ==
    IF s.status # "ok" THEN s
    ELSE select_map_values(s, clauses,
                           Append(blocks_of(s, "blocks"),
                                  block(s, "type_fail")))

\* the values with the blocks created for them, value_fail the last
select_map_blocks(s, clauses, value_fail) ==
    IF s.status # "ok" THEN s
    ELSE select_map_values(s, clauses,
                           Append(blocks_of(s, "blocks"), value_fail))

\* LowerFunctionToSsa::select_map
select_map(s, var, clauses, value_fail) ==
    LET s1 == ins(let_var(s, "src", var), "is_type", "Map", <<"src">>, <<>>,
                  <<>>, <<"is_map">>)
        s2 == ins(s1, "br_unless", "", <<"is_map">>, <<"type_fail">>, <<>>,
                  <<>>)
    IN select_map_blocks(create_blocks(s2, "blocks", Len(clauses) - 1),
                         clauses, value_fail)

\* LowerFunctionToSsa::select_cons
select_cons(s, var, clause, value_fail) ==
    LET s1 == ins(let_var(s, "src", var), "is_type", "Cons", <<"src">>, <<>>,
                  <<>>, <<"is_nonempty_list">>)
        s2 == ins(s1, "br_unless", "", <<"is_nonempty_list">>,
                  <<"type_fail">>, <<>>, <<>>)
        s3 == ins(s2, "cast", "", <<"src">>, <<>>, <<>>, <<"list">>)
        s4 == define_var(ins(s3, "head", "", <<"list">>, <<>>, <<>>,
                             <<"hd">>),
                         clause.args[1].args[1].op, "hd")
        s5 == define_var(ins(s4, "tail", "", <<"list">>, <<>>, <<>>,
                             <<"tl">>),
                         clause.args[1].args[2].op, "tl")
    IN lower_match(select_part(s5, "body"), value_fail, clause.sub[1])

\* LowerFunctionToSsa::select_nil
select_nil(s, var, clause, value_fail) ==
    LET s1 == ins(let_var(s, "src", var), "is_type", "Nil", <<"src">>, <<>>,
                  <<>>, <<"is_nil">>)
        s2 == ins(s1, "br_unless", "", <<"is_nil">>, <<"type_fail">>, <<>>,
                  <<>>)
    IN lower_match(select_part(s2, "body"), value_fail, clause.sub[1])

\* the test of one value of select_literal, the local `fail` the block given
select_literal_test(s, val) ==
    IF s.status # "ok" THEN s
    ELSE
    CASE val.k = "Literal" /\ val.op = "nil" ->
           ins(ins(s, "is_type", "Nil", <<"src">>, <<>>, <<>>, <<"is_nil">>),
               "br_unless", "", <<"is_nil">>, <<"fail">>, <<>>, <<>>)
      [] val.k = "Literal" /\ val.op # "nil" ->
           LET s1 == ins(ssa_value(s, val, "val"), "eq_exact", "",
                         <<"src", "val">>, <<>>, <<>>, <<"is_eq">>)
           IN ins(s1, "br_unless", "", <<"is_eq">>, <<"fail">>, <<>>, <<>>)
      [] val.k = "Tuple" ->
           LET s1 == ins(s, "is_type", "Tuple", <<"src">>, <<>>, <<>>,
                         <<"is_tuple">>)
               s2 == ins(s1, "br_unless", "", <<"is_tuple">>, <<"fail">>,
                         <<>>, <<>>)
               s3 == ins(s2, "cast", "", <<"src">>, <<>>, <<>>, <<"tuple">>)
           IN bind_elements(s3, val.args, Len(val.args))
      [] OTHER -> Panic(s)

\* one value of select_literal: its test, then its body
select_literal_value(s, clause, fail, value_fail) ==
    IF s.status # "ok" THEN s
    ELSE lower_match(
             select_part(
                 select_literal_test(
                     select_part(let_blocks(s, "fail", <<fail>>), "value"),
                     clause.args[1]),
                 "body"),
             value_fail, clause.sub[1])

\* for (value, fail) in values.zip(blocks) of select_literal
select_literal_values(s, clauses, blocks, value_fail) ==
    IF clauses = <<>> \/ s.status # "ok" THEN s
    ELSE select_literal_values(
             switch_to(select_literal_value(s, Head(clauses), Head(blocks),
                                            value_fail),
                       Head(blocks)),
             Tail(clauses), Tail(blocks), value_fail)

\* the values with the blocks created for them, type_fail the last
select_literal_blocks(s, clauses, type_fail, value_fail) ==
    IF s.status # "ok" THEN s
    ELSE select_literal_values(s, clauses,
                               Append(blocks_of(s, "blocks"), type_fail),
                               value_fail)

\* LowerFunctionToSsa::select_literal
select_literal(s, var, clauses, type_fail, value_fail) ==
    select_literal_blocks(
        create_blocks(let_var(s, "src", var), "blocks", Len(clauses) - 1),
        clauses, type_fail, value_fail)

\* the blocks lower_select was given, as locals
select_blocks(s, ty, type_fail, value_fail) ==
    let_blocks(let_blocks(enter(select_enter(s, ty, type_fail, value_fail)),
                          "type_fail", <<type_fail>>),
               "value_fail", <<value_fail>>)

\* the end of lower_select
select_end(s) == select_leave(leave(s))

\* LowerFunctionToSsa::lower_select
lower_select(s, var, clause, type_fail, value_fail) ==
    IF s.status # "ok" THEN s
    ELSE
    CASE clause.op = "Binary" /\ Len(clause.sub) = 1 ->
           select_end(select_binary(
                          select_blocks(s, clause.op, type_fail, value_fail), var,
                          clause.sub[1], value_fail))
      [] clause.op \in {"BinarySegment", "BinaryInt"} ->
           select_end(select_binary_segments(
                          select_blocks(s, clause.op, type_fail, value_fail), var,
                          clause.sub, type_fail))
      [] clause.op = "BinaryEnd" /\ Len(clause.sub) = 1 ->
           select_end(select_binary_end(
                          select_blocks(s, clause.op, type_fail, value_fail), var,
                          clause.sub[1], type_fail))
      [] clause.op = "Map" ->
           select_end(select_map(
                          select_blocks(s, clause.op, type_fail, value_fail), var,
                          clause.sub, value_fail))
      [] clause.op = "Cons" /\ Len(clause.sub) = 1 ->
           select_end(select_cons(
                          select_blocks(s, clause.op, type_fail, value_fail), var,
                          clause.sub[1], value_fail))
      [] clause.op = "Nil" /\ Len(clause.sub) = 1 ->
           select_end(select_nil(
                          select_blocks(s, clause.op, type_fail, value_fail), var,
                          clause.sub[1], value_fail))
      [] clause.op = "Literal" ->
           select_end(select_literal(
                          select_blocks(s, clause.op, type_fail, value_fail), var,
                          clause.sub, type_fail, value_fail))
      [] clause.op = "Tuple" ->
           IF \E c \in 1..Len(clause.sub) : clause.sub[c].args[1].k # "Tuple"
           THEN Panic(s)
           ELSE IF duplicate_arity(clause.sub) THEN DuplicateArity(s)
           ELSE select_end(lower_select_tuple(
                               select_blocks(s, clause.op, type_fail, value_fail), var,
                               sort_by_arity(clause.sub), value_fail))
      [] clause.op \in {"Atom", "Float", "Int"} ->
           select_end(lower_select_literal(
                          select_blocks(s, clause.op, type_fail, value_fail), var,
                          clause, value_fail))
      [] OTHER -> Panic(s)

\* ------------------------------------------------------ the function pass
NoVars == [name \in {} |-> NoValue]

\* one pair per Kernel variable, whatever the signature
zip_vars_only(kvars, arity) == Len(kvars)

\* kfunction.vars.iter().zip(signature.params()): as many pairs as the
\* shorter of the two
zip_len(kvars, arity) ==
    IF Len(kvars) < arity THEN Len(kvars) ELSE arity

\* IrBuilder::new: the entry block is the current block
NewFunction ==
    [blocks |-> <<EmptyBlock>>, cur |-> 1, vars |-> NoVars,
     exceptions |-> {}, fail |-> 0, ultimate_failure |-> 0,
     landing_pads |-> <<>>, brk |-> <<>>, labels |-> NoVars,
     status |-> "ok", diagnostics |-> 0, guards |-> <<>>, protected |-> 0,
     catches |-> <<>>, selects |-> <<>>, frames |-> <<>>]

entry == 1

\* the blocks the instructions of a block branch to
Dests(blk) ==
    UNION {{blk.insts[i].dests[d] : d \in 1..Len(blk.insts[i].dests)} :
              i \in 1..Len(blk.insts)}

\* the blocks of the function that are still there
live(blocks) == {b \in 1..Len(blocks) : ~blocks[b].removed}

has_predecessor(blocks, b) ==
    \E p \in live(blocks) : b \in Dests(blocks[p])

\* prune_unreachable_blocks: blocks with no predecessor are removed, until
\* there is none left
RECURSIVE prune(_)
prune(blocks) ==
    LET dead == {b \in live(blocks) \ {entry} : ~has_predecessor(blocks, b)}
    IN IF dead = {} THEN blocks
       ELSE prune([b \in 1..Len(blocks) |->
                      IF b \in dead THEN [blocks[b] EXCEPT !.removed = TRUE]
                      ELSE blocks[b]])

prune_unreachable_blocks(s) == [s EXCEPT !.blocks = prune(@)]

\* the failure block of the function is held by the pass
set_ultimate_failure(s) ==
    [s EXCEPT !.ultimate_failure = block(s, "ultimate_failure"),
              !.fail = block(s, "ultimate_failure")]

\* the end of the pass: the unreachable blocks are pruned when it succeeded
finish(s) == IF s.status # "ok" THEN s ELSE prune_unreachable_blocks(s)

\* LowerFunctionToSsa::run
run(kf) ==
    LET s0 == append_block_params(
                  let_current_block(enter(NewFunction), "entry"), "entry",
                  SubSeq(kf.vars, 1, zip_len(kf.vars, kf.arity)))
        s1 == create_block(let_current_block(s0, "current_block"),
                           "ultimate_failure")
        s2 == append_block_param(set_ultimate_failure(s1),
                                 "ultimate_failure", "exception")
        s3 == ins(switch_to_block(s2, "ultimate_failure"), "ret_err", "",
                  <<"exception">>, <<>>, <<>>, <<>>)
        s4 == lower(switch_to_block(s3, "current_block"), kf.body)
    IN finish(leave(s4))

\* ---------------------------------------------------- Kernel expressions
KLocal(name) == KExpr("Local", name, <<>>, <<>>, <<>>, <<>>, <<>>, "")
KRemote(name) == KExpr("Remote", name, <<>>, <<>>, <<>>, <<>>, <<>>, "")
KRemoteDynamic(module, function) ==
    KExpr("RemoteDynamic", "", <<module, function>>, <<>>, <<>>, <<>>, <<>>,
          "")
KClosureVar(name) ==
    KExpr("Var", name, <<>>, <<>>, <<>>, <<>>, <<>>, "closure")
KUnused(name) == KExpr("Var", name, <<>>, <<>>, <<>>, <<>>, <<>>, "unused")
KBif(op, args, rets) == KExpr("Bif", op, <<>>, args, rets, <<>>, <<>>, "")
KTest(op, args) == KExpr("Test", op, <<>>, args, <<>>, <<>>, <<>>, "")
KCall(callee, args, rets) ==
    KExpr("Call", "", <<callee>>, args, rets, <<>>, <<>>, "")
KEnter(callee, args) ==
    KExpr("Enter", "", <<callee>>, args, <<>>, <<>>, <<>>, "")
KSeq(arg, body) == KExpr("Seq", "", <<arg, body>>, <<>>, <<>>, <<>>, <<>>, "")
KReturn(val) == KExpr("Return", "", <<>>, <<val>>, <<>>, <<>>, <<>>, "")
KBreak(args) == KExpr("Break", "", <<>>, args, <<>>, <<>>, <<>>, "")
KMatch(body, rets) == KExpr("Match", "", <<body>>, <<>>, rets, <<>>, <<>>, "")
KAlt(first, then) ==
    KExpr("Alt", "", <<first, then>>, <<>>, <<>>, <<>>, <<>>, "")
KSelect(var, types) == KExpr("Select", var, types, <<>>, <<>>, <<>>, <<>>, "")
KTypeClause(ty, clauses) ==
    KExpr("TypeClause", ty, clauses, <<>>, <<>>, <<>>, <<>>, "")
KValueClause(val, body) ==
    KExpr("ValueClause", "", <<body>>, <<val>>, <<>>, <<>>, <<>>, "")
KGuard(clauses) == KExpr("Guard", "", clauses, <<>>, <<>>, <<>>, <<>>, "")
KGuardClause(guard, body) ==
    KExpr("GuardClause", "", <<guard, body>>, <<>>, <<>>, <<>>, <<>>, "")
KTry(arg, kvars, body, evars, handler, rets) ==
    KExpr("Try", "", <<arg, body, handler>>, <<>>, rets, kvars, evars, "")
KTryEnter(arg, kvars, body, evars, handler) ==
    KExpr("TryEnter", "", <<arg, body, handler>>, <<>>, <<>>, kvars, evars,
          "")
KCatch(body, rets) == KExpr("Catch", "", <<body>>, <<>>, rets, <<>>, <<>>, "")
KPut(arg, rets) == KExpr("Put", "", <<arg>>, <<>>, rets, <<>>, <<>>, "")
KTuple(elements) ==
    KExpr("Tuple", "", <<>>, elements, <<>>, <<>>, <<>>, "")
KMap(op, var, pairs) == KExpr("Map", op, pairs, <<var>>, <<>>, <<>>, <<>>, "")
KMapPair(key, val) ==
    KExpr("MapPair", "", <<>>, <<key, val>>, <<>>, <<>>, <<>>, "")
KBinaryEnd == KExpr("BinaryEnd", "", <<>>, <<>>, <<>>, <<>>, <<>>, "")
KBinarySegment(op, args, next) ==
    KExpr("BinarySegment", op, <<next>>, args, <<>>, <<>>, <<>>, "")
KBinary(segment) ==
    KExpr("Binary", "", <<segment>>, <<>>, <<>>, <<>>, <<>>, "")
KIf(cond, then, else, rets) ==
    KExpr("If", "", <<then, else>>, <<cond>>, rets, <<>>, <<>>, "")

KCons(head, tail) ==
    KExpr("Cons", "", <<>>, <<head, tail>>, <<>>, <<>>, <<>>, "")
\* a segment of a binary pattern: BinarySegment or BinaryInt
KSegment(kind, next, val, size) ==
    KExpr(kind, "", <<>>, <<val>> \o size, <<>>, <<next>>, <<>>, "")

\* ------------------------------------------------ the functions lowered
MaxVars == 2
MaxArity == 2

VarNames == <<"X", "Y", "Z", "W">>
VarLists == {SubSeq(VarNames, 1, n) : n \in 0..MaxVars}

\* one statement of a body: the expression, and the variable holding its
\* value afterwards
Stmt(name, e, out) == [name |-> name, e |-> e, out |-> out]

Stmts ==
    {Stmt("bif", KBif("hd", <<Var("X")>>, <<"R">>), "R"),
     Stmt("bif0", KBif("put", <<Var("X")>>, <<>>), "X"),
     Stmt("bif2", KBif("hd", <<Var("X")>>, <<"F", "R">>), "R"),
     Stmt("safe", KBif("self", <<>>, <<"R">>), "R"),
     Stmt("local", KCall(KLocal("f"), <<Var("X")>>, <<"R">>), "R"),
     Stmt("remote", KCall(KRemote("m:f"), <<Var("X")>>, <<"R">>), "R"),
     Stmt("dynamic",
          KCall(KRemoteDynamic(Var("X"), Var("X")), <<Var("X")>>, <<"R">>),
          "R"),
     Stmt("apply", KCall(Var("X"), <<Var("X")>>, <<"R">>), "R"),
     Stmt("indirect", KCall(KClosureVar("X"), <<Var("X")>>, <<"R">>), "R"),
     Stmt("closure",
          KCall(KBif("make_fun", <<KLocal("g"), Var("X")>>, <<>>),
                <<Var("X")>>, <<"R">>),
          "R"),
     Stmt("make_fun", KBif("make_fun", <<KLocal("g"), Var("X")>>, <<"R">>),
          "R"),
     Stmt("map_exact",
          KPut(KMap("Exact", Var("X"),
                    <<KMapPair(Literal("k"), Var("X"))>>), <<"R">>),
          "R"),
     Stmt("map_assoc",
          KPut(KMap("Assoc", Var("X"),
                    <<KMapPair(Literal("k"), Var("X"))>>), <<"R">>),
          "R"),
     Stmt("binary",
          KPut(KBinary(KBinarySegment("int", <<Var("X")>>, KBinaryEnd)),
               <<"R">>),
          "R"),
     Stmt("recv", KBif("recv_wait_timeout", <<Literal("0")>>, <<"R">>), "R"),
     Stmt("throw", KBif("throw", <<Var("X")>>, <<"R">>), "R"),
     Stmt("exit", KBif("exit", <<Var("X")>>, <<"R">>), "R"),
     Stmt("error", KBif("error", <<Var("X")>>, <<"R">>), "R"),
     Stmt("match_fail",
          KBif("match_fail", <<Literal("case_clause"), Var("X")>>, <<"R">>),
          "R"),
     Stmt("function_clause",
          KBif("match_fail", <<Literal("function_clause"), Var("X")>>,
               <<"R">>),
          "R"),
     Stmt("badmatch",
          KBif("match_fail", <<Literal("badmatch"), Var("X")>>, <<"R">>),
          "R"),
     Stmt("put", KPut(Literal("a"), <<"R">>), "R"),
     Stmt("undefined", KBif("hd", <<Var("U")>>, <<"R">>), "R"),
     Stmt("unpack_env", KBif("unpack_env", <<Var("X")>>, <<"R">>), "R"),
     Stmt("error_lit", KBif("error", <<Var("X")>>, <<>>), "L"),
     Stmt("error_var", KBif("error", <<Var("X")>>, <<>>), "X"),
     Stmt("error_none", KBif("error", <<Var("X")>>, <<>>), "")}

\* the value a statement leaves: its variable, or a literal
Out(st) ==
    IF st.out = "" THEN <<>>
    ELSE IF st.out = "L" THEN <<Literal("ok")>>
    ELSE <<Var(st.out)>>

\* the guard of a clause: a try for effect around the statement and a test,
\* ending in a Break or passing on to the next instruction
GuardTry(st, break) ==
    KTry(IF break
         THEN KSeq(st.e, KSeq(KTest("is_atom", <<Var("X")>>), KBreak(<<>>)))
         ELSE KSeq(st.e, KTest("is_atom", <<Var("X")>>)),
         <<>>, KBreak(<<>>), <<>>, KBreak(<<>>), <<>>)

Shapes ==
    {"plain", "catch", "try", "try_body", "try_handler", "try_enter",
     "guard", "guard_break",
     "guard_last", "guard_bare", "guard_in_catch"}

Shaped(shape, st) ==
    CASE shape = "plain" ->
           IF Out(st) = <<>> THEN st.e ELSE KSeq(st.e, KReturn(Out(st)[1]))
      [] shape = "catch" ->
           KSeq(KCatch(KSeq(st.e, KBreak(Out(st))), <<"C">>),
                KReturn(Var("C")))
      [] shape = "try" ->
           KSeq(KTry(KSeq(st.e, KBreak(Out(st))), <<"V">>,
                     KBreak(<<Var("V")>>), <<"Cl", "Re", "Tr">>,
                     KBreak(<<Var("Re")>>), <<"T">>),
                KReturn(Var("T")))
      [] shape = "try_body" ->
           KSeq(KTry(KBreak(<<Literal("v")>>), <<"V">>,
                     KSeq(st.e, KBreak(Out(st))), <<"Cl", "Re", "Tr">>,
                     KBreak(<<Var("Re")>>), <<"T">>),
                KReturn(Var("T")))
      [] shape = "try_handler" ->
           KSeq(KTry(KBreak(<<Literal("v")>>), <<"V">>,
                     KBreak(<<Var("V")>>), <<"Cl", "Re", "Tr">>,
                     KSeq(st.e, KBreak(Out(st))), <<"T">>),
                KReturn(Var("T")))
      [] shape = "try_enter" ->
           KTryEnter(KSeq(st.e, KBreak(Out(st))), <<"V">>,
                     KReturn(Var("V")), <<"Cl", "Re", "Tr">>,
                     KReturn(Var("Re")))
      [] shape = "guard" ->
           KMatch(KAlt(KGuard(<<KGuardClause(GuardTry(st, FALSE),
                                             KReturn(Literal("yes")))>>),
                       KReturn(Literal("no"))),
                  <<>>)
      [] shape = "guard_break" ->
           KMatch(KAlt(KGuard(<<KGuardClause(GuardTry(st, TRUE),
                                             KReturn(Literal("yes")))>>),
                       KReturn(Literal("no"))),
                  <<>>)
      [] shape = "guard_last" ->
           KMatch(KGuard(<<KGuardClause(GuardTry(st, TRUE),
                                        KReturn(Literal("yes")))>>),
                  <<>>)
      [] shape = "guard_bare" ->
           KMatch(KAlt(KGuard(<<KGuardClause(
                                   KSeq(st.e, KTest("is_atom", <<Var("X")>>)),
                                   KReturn(Literal("yes")))>>),
                       KReturn(Literal("no"))),
                  <<>>)
      [] shape = "guard_in_catch" ->
           KSeq(KCatch(
                    KSeq(KMatch(
                             KAlt(KGuard(<<KGuardClause(
                                              GuardTry(st, TRUE),
                                              KBreak(<<Literal("yes")>>))>>),
                                  KBreak(<<Literal("no")>>)),
                             <<"M">>),
                         KBreak(<<Var("M")>>)),
                    <<"C">>),
                KReturn(Var("C")))

\* a Select on X with one type clause
SelectOn(ty, clauses) ==
    KMatch(KAlt(KSelect("X", <<KTypeClause(ty, clauses)>>),
                KBif("match_fail", <<Literal("case_clause"), Var("X")>>,
                     <<>>)),
           <<>>)

Special(name, body) == [shape |-> name, stmt |-> "", body |-> body]

\* a clause body that can fail to match: a guard with one clause
FailingBodyOf(val) ==
    KGuard(<<KGuardClause(KTest("is_atom", <<Var("X")>>), KReturn(val))>>)
FailingBody(lit) == FailingBodyOf(Literal(lit))

\* a Select on X with two type clauses, the second one of another type
SelectTypes(ty, clauses) ==
    KMatch(KAlt(KSelect("X",
                   <<KTypeClause(ty, clauses),
                     IF ty = "Nil"
                     THEN KTypeClause("Atom",
                              <<KValueClause(Literal("b"),
                                             KReturn(Literal("no")))>>)
                     ELSE KTypeClause("Nil",
                              <<KValueClause(Literal("nil"),
                                             KReturn(Literal("no")))>>)>>),
                KBif("match_fail", <<Literal("case_clause"), Var("X")>>,
                     <<>>)),
           <<>>)

\* the segments of a binary pattern, matched on the context Ctx: the end,
\* a literal integer, a variable
SelectSegments ==
    KSelect("Ctx",
        <<KTypeClause("BinaryEnd",
              <<KValueClause(KBinaryEnd, FailingBody("empty"))>>),
          KTypeClause("BinaryInt",
              <<KValueClause(KSegment("BinaryInt", "N", Literal("1"),
                                      <<Literal("8")>>),
                             FailingBody("one"))>>),
          KTypeClause("BinarySegment",
              <<KValueClause(KSegment("BinarySegment", "N", Var("V"),
                                      <<Literal("8")>>),
                             FailingBody("int")),
                KValueClause(KSegment("BinarySegment", "N", Var("V"), <<>>),
                             FailingBody("rest"))>>)>>)

SelectSpecials ==
    {Special("types_atom",
             SelectTypes("Atom",
                 <<KValueClause(Literal("a"), FailingBody("1")),
                   KValueClause(Literal("b"), FailingBody("2"))>>)),
     Special("types_tuple",
             SelectTypes("Tuple",
                 <<KValueClause(KTuple(<<Var("A"), KUnused("B"), Var("C")>>),
                                FailingBodyOf(Var("C"))),
                   KValueClause(KTuple(<<Var("A")>>),
                                FailingBodyOf(Var("A"))),
                   KValueClause(KTuple(<<KUnused("A"), Var("B")>>),
                                FailingBodyOf(Var("B")))>>)),
     Special("types_cons",
             SelectTypes("Cons",
                 <<KValueClause(KCons(Var("H"), Var("T")),
                                FailingBody("cons"))>>)),
     Special("types_nil",
             SelectTypes("Nil",
                 <<KValueClause(Literal("nil"), FailingBody("nil"))>>)),
     Special("types_map",
             SelectTypes("Map",
                 <<KValueClause(KMap("Exact", Var("X"),
                                     <<KMapPair(Literal("k"), Var("V")),
                                       KMapPair(Literal("l"), Var("W"))>>),
                                FailingBody("kl")),
                   KValueClause(KMap("Exact", Var("X"),
                                     <<KMapPair(Literal("k"), Var("V"))>>),
                                FailingBody("k"))>>)),
     Special("types_literal",
             SelectTypes("Literal",
                 <<KValueClause(Literal("lit"), FailingBody("lit")),
                   KValueClause(KTuple(<<Var("A")>>), FailingBody("tuple")),
                   KValueClause(Literal("nil"), FailingBody("nil"))>>)),
     Special("types_binary",
             SelectTypes("Binary",
                 <<KValueClause(KBinary(Var("Ctx")), SelectSegments)>>))}

Specials ==
    {Special("select_tuple",
             SelectOn("Tuple",
                      <<KValueClause(KTuple(<<Var("A"), KUnused("B")>>),
                                     KReturn(Var("A"))),
                        KValueClause(KTuple(<<Var("A")>>),
                                     KReturn(Var("A")))>>)),
     Special("select_tuple_same_arity",
             SelectOn("Tuple",
                      <<KValueClause(KTuple(<<Var("A")>>), KReturn(Var("A"))),
                        KValueClause(KTuple(<<Var("B")>>),
                                     KReturn(Var("B")))>>)),
     Special("select_atom",
             SelectOn("Atom",
                      <<KValueClause(Literal("a"), KReturn(Literal("1"))),
                        KValueClause(Literal("b"), KReturn(Literal("2")))>>)),
     Special("select_last",
             KMatch(KSelect("X",
                       <<KTypeClause("Atom",
                            <<KValueClause(Literal("a"),
                                           KReturn(Literal("1")))>>)>>),
                    <<>>)),
     Special("match_for_effect",
             KSeq(KMatch(KAlt(KSelect("X",
                                 <<KTypeClause("Atom",
                                      <<KValueClause(Literal("a"),
                                                     KBreak(<<>>))>>)>>),
                              KBreak(<<>>)),
                         <<>>),
                  KReturn(Var("X")))),
     Special("match_for_value",
             KSeq(KMatch(KAlt(KSelect("X",
                                 <<KTypeClause("Atom",
                                      <<KValueClause(Literal("a"),
                                           KBreak(<<Literal("1")>>))>>)>>),
                              KBreak(<<Literal("2")>>)),
                         <<"M">>),
                  KReturn(Var("M")))),
     Special("if",
             KSeq(KIf(Var("X"), KBreak(<<Literal("1")>>),
                      KBreak(<<Literal("2")>>), <<"I">>),
                  KReturn(Var("I")))),
     Special("enter", KEnter(KLocal("f"), <<Var("X")>>)),
     Special("enter_in_catch",
             KSeq(KCatch(KEnter(KLocal("f"), <<Var("X")>>), <<"C">>),
                  KReturn(Var("C")))),
     Special("goto",
             KSeq(KExpr("LetRecGoto", "l",
                        <<KExpr("Goto", "l", <<>>, <<Var("X")>>, <<>>, <<>>,
                                <<>>, ""),
                          KBreak(<<Var("G")>>)>>,
                        <<>>, <<"J">>, <<"G">>, <<>>, ""),
                  KReturn(Var("J"))))}

\* one expression of every form, each leaving its value by a Break or, for
\* TryEnter, by a Return
Forms ==
    [match |->
        KMatch(KAlt(KSelect("X",
                       <<KTypeClause("Atom",
                            <<KValueClause(Literal("a"),
                                           KBreak(<<Literal("1")>>))>>)>>),
                    KBreak(<<Literal("2")>>)),
               <<"M">>),
     guard |->
        KMatch(KAlt(KGuard(<<KGuardClause(
                                KTry(KSeq(KTest("is_atom", <<Var("X")>>),
                                          KBreak(<<>>)),
                                     <<>>, KBreak(<<>>), <<>>, KBreak(<<>>),
                                     <<>>),
                                KBreak(<<Literal("yes")>>))>>),
                    KBreak(<<Literal("no")>>)),
               <<"M">>),
     if |->
        KIf(Var("X"), KBreak(<<Literal("1")>>), KBreak(<<Literal("2")>>),
            <<"I">>),
     letrec |->
        KExpr("LetRecGoto", "l",
              <<KExpr("Goto", "l", <<>>, <<Var("X")>>, <<>>, <<>>, <<>>, ""),
                KBreak(<<Var("H")>>)>>,
              <<>>, <<"K">>, <<"H">>, <<>>, ""),
     try |->
        KTry(KBreak(<<Literal("v")>>), <<"V">>, KBreak(<<Var("V")>>),
             <<"Cl", "Re", "Tr">>, KBreak(<<Var("Re")>>), <<"T">>),
     catch |-> KCatch(KBreak(<<Literal("v")>>), <<"D">>),
     try_enter |->
        KTryEnter(KBreak(<<Literal("v")>>), <<"V">>, KReturn(Var("V")),
                  <<"Cl", "Re", "Tr">>, KReturn(Var("Re")))]

\* the form between two bifs in the body of a Catch, itself in the first
\* part of a LetRecGoto: a break target, a landing pad and a label are there
\* when the form is lowered
Nested(form) ==
    KSeq(KExpr("LetRecGoto", "o",
               <<KSeq(KCatch(KSeq(KBif("hd", <<Var("X")>>, <<"B">>),
                                  KSeq(form,
                                       KSeq(KBif("tl", <<Var("X")>>,
                                                 <<"R">>),
                                            KBreak(<<Var("R")>>)))),
                             <<"C">>),
                      KBreak(<<Var("C")>>)),
                 KBreak(<<Var("G")>>)>>,
               <<>>, <<"J">>, <<"G">>, <<>>, ""),
         KReturn(Var("J")))

NestedSpecials ==
    {[shape |-> "nested", stmt |-> f, body |-> Nested(Forms[f])] :
        f \in DOMAIN Forms}

Bodies ==
    {[shape |-> shape, stmt |-> st.name, body |-> Shaped(shape, st)] :
        shape \in Shapes, st \in Stmts} \cup Specials \cup SelectSpecials
        \cup NestedSpecials

KFunctions ==
    {[shape |-> b.shape, stmt |-> b.stmt, vars |-> kvars, arity |-> arity,
      body |-> b.body] :
        b \in Bodies, kvars \in VarLists, arity \in 0..MaxArity}

\* ------------------------------------------------ lowering one function
ExecOff ==
    [on |-> FALSE, blk |-> 0, pc |-> 0, env |-> NoVars,
     raised |-> [t |-> "none", name |-> "", elems |-> <<>>],
     delivered |-> <<>>, outcome |-> "off"]

InitLower ==
    /\ SchedulerNew
    /\ MainOff
    /\ kfunction \in KFunctions
    /\ lowered = NewFunction
    /\ lower_pc = "input"
    /\ exec = ExecOff
    /\ ListOff

\* KernelToSsa::run on the function: pass.run(function)?
LowerFunction ==
    /\ lower_pc = "input"
    /\ lowered' = run(kfunction)
    /\ lower_pc' = IF lowered'.status = "ok" THEN "lowered" ELSE "failed"
    /\ UNCHANGED <<kfunction, exec>>

\* ------------------------------------------- running the lowered function
\* a term: an atom, a tuple, a list, an exception {class, reason, trace}, a
\* boolean or the opaque result of an instruction
NoTerm == [t |-> "none", name |-> "", elems |-> <<>>]
Atom(name) == [t |-> "atom", name |-> name, elems |-> <<>>]
Bool(b) == [t |-> "bool", name |-> IF b THEN "true" ELSE "false",
            elems |-> <<>>]
Tuple(elems) == [t |-> "tuple", name |-> "", elems |-> elems]
ListTerm(elems) == [t |-> "list", name |-> "", elems |-> elems]
Opaque(name) == [t |-> "term", name |-> name, elems |-> <<>>]
Exception(class, reason, trace) ==
    [t |-> "exception", name |-> class, elems |-> <<reason, trace>>]

Tests == {"is_atom"}
\* calls whose error flag is never set
Infallible ==
    SafeBifs \cup Tests \cup
    {"map_put", "map_put_mut", "remove_message", "recv_next",
     "recv_peek_message", "build_stacktrace"}
\* calls that always raise
Raising == {"throw", "exit", "error", "erlang:error/1"}
Calls == {"call", "call_indirect", "make_fun"}

Eval(e, v) == IF v \in DOMAIN e.env THEN e.env[v] ELSE NoTerm

Bind(e, v, term) == [e EXCEPT !.env = (v :> term) @@ @]

Result(e, n) == InstResult(e.blk, e.pc, n)

Advance(e) == [e EXCEPT !.pc = @ + 1]

Min(a, b) == IF a < b THEN a ELSE b

\* a branch: the parameters of the target take the branch arguments
RECURSIVE BindParams(_, _, _, _, _)
BindParams(e, from, dest, bargs, n) ==
    IF n = 0 THEN e
    ELSE BindParams(Bind(e, BlockParam(dest, n), Eval(from, bargs[n])), from,
                    dest, bargs, n - 1)

Jump(e, dest, bargs) ==
    LET bound == BindParams(e, e, dest, bargs,
                            Min(lowered.blocks[dest].params, Len(bargs)))
        result_block == IF lowered.catches = <<>> THEN 0
                        ELSE lowered.catches[1].result
    IN [bound EXCEPT !.blk = dest, !.pc = 1,
                     !.delivered =
                         IF dest = result_block /\ bargs # <<>>
                         THEN Append(@, Eval(e, bargs[1])) ELSE @]

Finish(e, outcome) == [e EXCEPT !.outcome = outcome]

\* one instruction; `err` and `class` are what a call does this time
ExecInst(e, inst, err, class) ==
    CASE inst.op \in Calls ->
           IF inst.name \in Raising
           THEN LET x == Exception(IF inst.name = "erlang:error/1"
                                   THEN "error" ELSE inst.name,
                                   Eval(e, inst.args[1]), Opaque("trace"))
                IN Advance([Bind(Bind(e, Result(e, 0), Bool(TRUE)),
                                 Result(e, 1), x)
                            EXCEPT !.raised = x])
           ELSE IF inst.name \in Infallible
           THEN Advance(Bind(Bind(e, Result(e, 0), Bool(FALSE)),
                             Result(e, 1),
                             IF inst.name \in Tests THEN Bool(err)
                             ELSE Opaque(inst.name)))
           ELSE IF err
           THEN LET x == Exception(class, Opaque("reason"), Opaque("trace"))
                IN Advance([Bind(Bind(e, Result(e, 0), Bool(TRUE)),
                                 Result(e, 1), x)
                            EXCEPT !.raised = x])
           ELSE Advance(Bind(Bind(e, Result(e, 0), Bool(FALSE)),
                             Result(e, 1), Opaque(inst.name)))
      [] inst.op \in {"const", "atom"} ->
           Advance(Bind(e, Result(e, 0), Atom(inst.name)))
      [] inst.op = "br" -> Jump(e, inst.dests[1], inst.bargs)
      [] inst.op = "br_if" ->
           IF Eval(e, inst.args[1]) = Bool(TRUE)
           THEN Jump(e, inst.dests[1], inst.bargs) ELSE Advance(e)
      [] inst.op = "br_unless" ->
           IF Eval(e, inst.args[1]) = Bool(TRUE)
           THEN Advance(e) ELSE Jump(e, inst.dests[1], inst.bargs)
      [] inst.op = "cond_br" ->
           Jump(e, inst.dests[IF err THEN 1 ELSE 2], <<>>)
      [] inst.op = "switch" ->
           Jump(e, inst.dests[IF err THEN 1 ELSE Len(inst.dests)], <<>>)
      [] inst.op = "exception_class" ->
           Advance(Bind(e, Result(e, 0), Atom(Eval(e, inst.args[1]).name)))
      [] inst.op = "exception_reason" ->
           Advance(Bind(e, Result(e, 0),
                        IF Eval(e, inst.args[1]).t = "exception"
                        THEN Eval(e, inst.args[1]).elems[1] ELSE NoTerm))
      [] inst.op = "exception_trace" ->
           Advance(Bind(e, Result(e, 0),
                        IF Eval(e, inst.args[1]).t = "exception"
                        THEN Eval(e, inst.args[1]).elems[2] ELSE NoTerm))
      [] inst.op = "eq_exact_imm" ->
           Advance(Bind(e, Result(e, 0),
                        Bool(Eval(e, inst.args[1]) = Atom(inst.name))))
      [] inst.op = "eq_exact" ->
           Advance(Bind(e, Result(e, 0),
                        Bool(Eval(e, inst.args[1]) = Eval(e, inst.args[2]))))
      [] inst.op = "tuple_imm" ->
           Advance(Bind(e, Result(e, 0), Tuple(<<>>)))
      [] inst.op = "set_element_mut" ->
           Advance(Bind(e, inst.args[1],
                        Tuple(Append(Eval(e, inst.args[1]).elems,
                                     Eval(e, inst.args[2])))))
      [] inst.op = "set_element_mut_imm" ->
           Advance(Bind(e, inst.args[1],
                        Tuple(Append(Eval(e, inst.args[1]).elems,
                                     Atom(inst.name)))))
      [] inst.op = "nil" -> Advance(Bind(e, Result(e, 0), ListTerm(<<>>)))
      [] inst.op = "cons" ->
           Advance(Bind(e, Result(e, 0),
                        ListTerm(<<Eval(e, inst.args[1])>> \o
                                 Eval(e, inst.args[2]).elems)))
      [] inst.op = "cast" ->
           Advance(Bind(e, Result(e, 0), Eval(e, inst.args[1])))
      [] inst.op \in {"bs_start_match", "bs_match", "bs_match_skip",
                      "bs_test_tail_imm"} ->
           Advance(Bind(e, Result(e, 0), Bool(err)))
      [] inst.op = "is_type" ->
           Advance(Bind(e, Result(e, 0), Bool(err)))
      [] inst.op \in {"ret_ok", "ret_err", "ret", "enter", "enter_indirect"}
           -> Finish(e, inst.op)
      [] OTHER -> Advance(Bind(e, Result(e, 0), Opaque(inst.op)))

\* the entry block is entered with the arguments of the call
ExecStart ==
    /\ lower_pc = "lowered"
    /\ exec.outcome = "off"
    /\ exec' = [on |-> TRUE, blk |-> entry, pc |-> 1,
                env |-> [v \in {BlockParam(entry, n) :
                                   n \in 1..lowered.blocks[entry].params}
                            |-> Opaque("arg")],
                raised |-> NoTerm, delivered |-> <<>>,
                outcome |-> "running"]
    /\ UNCHANGED <<kfunction, lowered, lower_pc>>

\* the next instruction of the current block
ExecStep ==
    /\ exec.outcome = "running"
    /\ LET blk == lowered.blocks[exec.blk] IN
       IF blk.removed
       THEN exec' = Finish(exec, "removed_block")
       ELSE IF exec.pc > Len(blk.insts)
       THEN exec' = Finish(exec, "no_terminator")
       ELSE \E err \in BOOLEAN, class \in Classes :
               exec' = ExecInst(exec, blk.insts[exec.pc], err, class)
    /\ UNCHANGED <<kfunction, lowered, lower_pc>>

NextLower ==
    \/ LowerFunction /\ UNCHANGED <<procSchedVars, mainVars, listVars>>
    \/ ExecStart /\ UNCHANGED <<procSchedVars, mainVars, listVars>>
    \/ ExecStep /\ UNCHANGED <<procSchedVars, mainVars, listVars>>

SpecLower == InitLower /\ [][NextLower]_vars

\* ========================================= lists (library/rt term/list.rs)
MaxSlice == 2      \* elements of the slice handed to Cons::from_slice
MaxCells == 3      \* cons cells allocated in one behaviour

\* the terms a slice holds, and the tails Cons::cons is given
Elements == {AtomTerm("a"), AtomTerm("b"), Nil}
Slices == UNION {[1..n -> Elements] : n \in 0..MaxSlice}

\* Cons::from_slice(slice, alloc) is called: ListBuilder::new
InitList ==
    /\ SchedulerNew
    /\ MainOff
    /\ LowerOff
    /\ \E slice \in Slices :
          list = [NoList EXCEPT !.pc = "from_slice", !.slice = slice,
                                !.from_slice = TRUE]

\* ListBuilder::push: a new cell whose tail is NIL, or the cell pushed before
push(l, val) ==
    [l EXCEPT !.cells = Append(@, [head |-> val,
                                   tail |-> IF l.builder.some
                                            THEN l.builder.term ELSE Nil]),
              !.builder = SomeOk(ConsTerm(Len(l.cells) + 1))]

\* ListBuilder::finish: self.head.take()
finish_list(l) == [l EXCEPT !.cons = l.builder, !.builder = Absent]

\* for value in slice.iter().rev() { builder.push(value) }
from_slice_push ==
    /\ list.pc = "from_slice"
    /\ list.pushed < Len(list.slice)
    /\ list' = [push(list, list.slice[Len(list.slice) - list.pushed])
                   EXCEPT !.pushed = @ + 1]

\* builder.finish()
from_slice_finish ==
    /\ list.pc = "from_slice"
    /\ list.pushed = Len(list.slice)
    /\ list' = [finish_list(list) EXCEPT !.pc = "built"]

\* Cons::cons(head, tail) in a new cell: the tail is any term, the list that
\* was built included
cons ==
    /\ list.pc = "built"
    /\ Len(list.cells) < MaxCells
    /\ \E hd \in Elements :
          \E tl \in Elements \cup
                    (IF list.cons.some THEN {list.cons.term} ELSE {}) :
             list' = [list EXCEPT
                         !.cells = Append(@, [head |-> hd, tail |-> tl]),
                         !.cons = SomeOk(ConsTerm(Len(list.cells) + 1)),
                         !.from_slice = FALSE]

\* Cons::iter, Iter::new
iter ==
    /\ list.pc = "built"
    /\ list.cons.some
    /\ list' = [list EXCEPT
                   !.pc = "iter",
                   !.head = SomeOk(list.cells[list.cons.term.c].head),
                   !.tail = SomeOk(list.cells[list.cons.term.c].tail)]

\* Iter::next: [the iterator afterwards, the item returned]
IterNext(l) ==
    LET next == l.head
        taken == [l EXCEPT !.head = Absent]
    IN
    CASE ~next.some -> [l |-> taken, item |-> next]
      [] next.some /\ ~next.ok ->
           [l |-> [taken EXCEPT !.tail = Absent], item |-> next]
      [] next.some /\ next.ok /\ next.term = Nil /\ ~l.tail.some ->
           [l |-> taken, item |-> SomeOk(Nil)]
      [] OTHER ->
           LET tail == l.tail.term IN
           CASE tail.t = "nil" ->
                  [l |-> [taken EXCEPT !.head = SomeOk(Nil),
                                       !.tail = Absent],
                   item |-> next]
             [] tail.t = "cons" ->
                  [l |-> [taken EXCEPT
                             !.head = SomeOk(l.cells[tail.c].head),
                             !.tail = SomeOk(l.cells[tail.c].tail)],
                   item |-> next]
             [] OTHER ->
                  [l |-> [taken EXCEPT !.head = SomeErr(tail),
                                       !.tail = Absent],
                   item |-> next]

\* one call of next() by the loop over the iterator; the loop ends at None
iter_next ==
    /\ list.pc = "iter"
    /\ LET r == IterNext(list)
       IN list' = IF r.item.some
                  THEN [r.l EXCEPT !.items = Append(@, r.item)]
                  ELSE [r.l EXCEPT !.pc = "ended"]

NextList ==
    \/ from_slice_push /\ UNCHANGED <<procSchedVars, mainVars, lowerVars>>
    \/ from_slice_finish /\ UNCHANGED <<procSchedVars, mainVars, lowerVars>>
    \/ cons /\ UNCHANGED <<procSchedVars, mainVars, lowerVars>>
    \/ iter /\ UNCHANGED <<procSchedVars, mainVars, lowerVars>>
    \/ iter_next /\ UNCHANGED <<procSchedVars, mainVars, lowerVars>>

SpecList == InitList /\ [][NextList]_vars

\* the list the Iter was made for: its heads, cell after cell, and the term
\* that ends it
RECURSIVE Heads(_, _)
Heads(cells, term) ==
    IF term.t = "cons"
    THEN <<cells[term.c].head>> \o Heads(cells, cells[term.c].tail)
    ELSE <<>>

RECURSIVE LastTail(_, _)
LastTail(cells, term) ==
    IF term.t = "cons" THEN LastTail(cells, cells[term.c].tail) ELSE term

\* C20: when the iteration of a list built by Cons::from_slice from a
\* non-empty slice has ended, the items produced are Ok(s[0]), ..., Ok(s[n-1])
\* and nothing else.
C20_FromSliceIterYieldsSlice ==
    (list.pc = "ended" /\ list.from_slice)
        => list.items = [i \in 1..Len(list.slice) |-> SomeOk(list.slice[i])]

\* C20, proper lists: every item is Ok and there are as many items as cells
C20_ProperItemsAreCells ==
    (list.pc = "ended" /\ LastTail(list.cells, list.cons.term) = Nil)
        => /\ \A i \in 1..Len(list.items) : list.items[i].ok
           /\ Len(list.items) = Len(Heads(list.cells, list.cons.term))

\* C20, improper lists: the last item, and only that one, is
\* Err(ImproperList) holding the tail that is no list
C20_ImproperLastIsErr ==
    (list.pc = "ended" /\ LastTail(list.cells, list.cons.term) # Nil)
        => /\ list.items # <<>>
           /\ list.items[Len(list.items)] =
                 SomeErr(LastTail(list.cells, list.cons.term))
           /\ \A i \in 1..(Len(list.items) - 1) : list.items[i].ok

\* the iteration of from_slice(<<a>>) has ended
C20_Witness ==
    /\ list.pc = "ended"
    /\ list.from_slice
    /\ list.slice = <<AtomTerm("a")>>
    /\ list.items = <<SomeOk(AtomTerm("a")), SomeOk(Nil)>>

\* ============================== properties of the function that is returned
\* the pass succeeded: `lowered` is the function it returned
Lowered == lower_pc = "lowered"

InstsOf(b) == lowered.blocks[b].insts

\* the instructions with an is_err result: calls other than those that
\* cannot fail or always raise, make_fun, and the steps of a binary
Fallible(inst) ==
    \/ /\ inst.op \in {"call", "call_indirect"}
       /\ inst.name \notin (Infallible \cup Raising \cup ExceptionOps)
    \/ inst.op \in {"make_fun", "bs_push"}

\* the instruction after (b, i) tests its is_err result and branches to the
\* block of the fail context with its second result as the one argument
Checked(b, i) ==
    /\ i < Len(InstsOf(b))
    /\ InstsOf(b)[i + 1].op = "br_if"
    /\ InstsOf(b)[i + 1].args = <<InstResult(b, i, 0)>>
    /\ InstsOf(b)[i + 1].dests = <<InstsOf(b)[i].at.context.block>>
    /\ InstsOf(b)[i + 1].bargs = <<InstResult(b, i, 1)>>

\* the is_err result of (b, i) is bound to a Kernel variable
ErrorFlagBound(b, i) ==
    \E v \in DOMAIN lowered.vars : lowered.vars[v] = InstResult(b, i, 0)

\* (b, i) is the make_fun of a direct call of a local closure: the fun is the
\* last argument of the call of that function
ClosureMakeFun(b, i) ==
    /\ InstsOf(b)[i].op = "make_fun"
    /\ \E j \in (i + 1)..Len(InstsOf(b)) :
          /\ InstsOf(b)[j].op \in {"call", "enter"}
          /\ InstsOf(b)[j].name = InstsOf(b)[i].name
          /\ InstsOf(b)[j].args # <<>>
          /\ InstsOf(b)[j].args[Len(InstsOf(b)[j].args)] = InstResult(b, i, 1)

\* the error of (b, i) goes to a block of its own that returns it
ReturnsError(b, i) ==
    /\ i < Len(InstsOf(b))
    /\ InstsOf(b)[i + 1].op = "br_if"
    /\ InstsOf(b)[i + 1].args = <<InstResult(b, i, 0)>>
    /\ InstsOf(b)[i + 1].bargs = <<InstResult(b, i, 1)>>
    /\ LET dest == InstsOf(b)[i + 1].dests[1]
       IN /\ Len(InstsOf(dest)) = 1
          /\ InstsOf(dest)[1].op = "ret_err"
          /\ InstsOf(dest)[1].args = <<BlockParam(dest, 1)>>

\* the tests of a Select made by a native call: the arity of a tuple is
\* asked for, a key of a map is fetched; an error is a mismatch
TypeTest(inst) ==
    inst.op = "call" /\ inst.name \in {"tuple_size", "map_fetch"}

\* C12 (as stated): every fallible instruction of the lowered function is
\* followed by the test of its is_err result, which branches to the block of
\* the fail context with the error value as the single argument.
C12_AllFallibleChecked ==
    Lowered =>
       \A b \in live(lowered.blocks) : \A i \in 1..Len(InstsOf(b)) :
          Fallible(InstsOf(b)[i]) => Checked(b, i)

\* C12 (amended): the same, but for three kinds of instruction: the make_fun
\* of a direct closure call, whose error goes to a block of its own that
\* returns it; a bif with two ret variables, whose is_err result is bound
\* to the first of them and not tested; the tuple_size of a tuple Select
\* and the map_fetch of a map Select.
C12_FallibleErrorsChecked ==
    Lowered =>
       \A b \in live(lowered.blocks) : \A i \in 1..Len(InstsOf(b)) :
          Fallible(InstsOf(b)[i]) =>
             IF ClosureMakeFun(b, i) THEN ReturnsError(b, i)
             ELSE IF ErrorFlagBound(b, i)
             THEN i = Len(InstsOf(b)) \/ InstsOf(b)[i + 1].op # "br_if"
             ELSE IF TypeTest(InstsOf(b)[i]) THEN ~Checked(b, i)
             ELSE Checked(b, i)

\* a bif inside a catch is checked and its error goes to the handler block
C12_Witness ==
    /\ Lowered
    /\ kfunction.shape = "catch"
    /\ kfunction.stmt = "bif"
    /\ \E b \in live(lowered.blocks) : \E i \in 1..Len(InstsOf(b)) :
          /\ Fallible(InstsOf(b)[i])
          /\ Checked(b, i)
          /\ InstsOf(b)[i].at.context = Catch(lowered.catches[1].handler)

\* every block the pass created, those removed afterwards included
AllBlocks == 1..Len(lowered.blocks)

\* C13: wherever an instruction is emitted, fail_context() is Guard(fail)
\* exactly when fail differs from the ultimate-failure block, whatever the
\* landing pads; otherwise Catch(top of landing_pads) when there is a landing
\* pad; otherwise Uncaught(ultimate_failure).
C13_FailContextOrder ==
    Lowered =>
       \A b \in AllBlocks : \A i \in 1..Len(InstsOf(b)) :
          LET at == InstsOf(b)[i].at IN
          at.context =
             IF at.fail # at.ultimate_failure THEN Guard(at.fail)
             ELSE IF at.landing_pads # <<>>
             THEN Catch(at.landing_pads[Len(at.landing_pads)])
             ELSE Uncaught(at.ultimate_failure)

\* an instruction of a guard inside a catch: the context is the guard's
C13_Witness ==
    /\ Lowered
    /\ \E b \in AllBlocks : \E i \in 1..Len(InstsOf(b)) :
          LET at == InstsOf(b)[i].at IN
          /\ at.fail # at.ultimate_failure
          /\ at.landing_pads # <<>>
          /\ at.context = Guard(at.fail)

\* (b, i) tests the is_err result of the fallible instruction before it and
\* branches when it is set
ErrorBranch(b, i) ==
    /\ i > 1
    /\ InstsOf(b)[i].op = "br_if"
    /\ Fallible(InstsOf(b)[i - 1])
    /\ InstsOf(b)[i].args = <<InstResult(b, i - 1, 0)>>

\* the handler blocks of the function
Handlers == {lowered.catches[c].handler : c \in 1..Len(lowered.catches)}

GuardContextShapes == {"guard", "guard_break", "guard_in_catch"}
\* the statements that are a Call
CallStmts ==
    {"local", "remote", "dynamic", "apply", "indirect", "closure"}

FailureIsErrOrPanic ==
    lower_pc = "failed" =>
       /\ lowered.status \in {"err", "panic"}
       /\ lowered.status = "err" <=> lowered.diagnostics = 1
       /\ lowered.status = "panic" <=> lowered.diagnostics = 0
       /\ exec = ExecOff
       /\ kfunction.stmt = "undefined" => lowered.status = "err"
       /\ (kfunction.shape = "plain" /\ kfunction.stmt = "error_var")
             => lowered.status = "err"
       /\ (kfunction.shape \in GuardContextShapes
             /\ kfunction.stmt \in CallStmts) => lowered.status = "panic"
       /\ kfunction.shape = "select_tuple_same_arity"
             => lowered.status = "panic"
       /\ kfunction.stmt = "unpack_env" => lowered.status = "panic"

\* a function with one of the error conditions is never lowered
EachConditionFails ==
    (\/ kfunction.stmt = "undefined"
     \/ kfunction.shape = "plain" /\ kfunction.stmt = "error_var"
     \/ kfunction.shape \in GuardContextShapes /\ kfunction.stmt \in CallStmts
     \/ kfunction.shape = "select_tuple_same_arity"
     \/ kfunction.stmt = "unpack_env")
        => lower_pc \in {"input", "failed"}

Ended == exec.outcome \notin {"off", "running"}

\* what `catch` makes of an exception
Caught(x) ==
    CASE x.name = "throw" -> x.elems[1]
      [] x.name = "exit" -> Tuple(<<Atom("EXIT"), x.elems[1]>>)
      [] OTHER -> Tuple(<<Atom("EXIT"), Tuple(<<x.elems[1], x.elems[2]>>)>>)

\* the value of the body of the catch of shape "catch": what its Break passes
BreakValue ==
    LET arg == kfunction.body.sub[1].sub[1].sub[2].args[1]
    IN IF arg.k = "Literal" THEN Atom(arg.op)
       ELSE Eval(exec, lowered.vars[arg.op])

\* the function `catch Expr, return` has returned what the catch delivered:
\* one value, that of Expr or what the catch makes of the exception raised
CatchDelivers ==
    /\ exec.outcome = "ret_ok"
    /\ Len(exec.delivered) = 1
    /\ exec.delivered[1] =
          IF exec.raised = NoTerm THEN BreakValue ELSE Caught(exec.raised)

\* executed, the catch delivers unless Expr is a direct call of a local
\* closure whose make_fun fails, or a bif with two ret variables, whose
\* error is a value handed to the code that follows
CatchDeliversButForClosure ==
    (kfunction.shape = "catch" /\ Ended
        /\ kfunction.stmt \notin {"closure", "bif2"}) => CatchDelivers

\* C16: no exception raised inside `catch Expr` escapes the catch: every
\* test of an error emitted in the Catch context branches to the handler
\* block on top of the landing pads, from where the value is delivered to
\* the result block.
C16_NoExceptionEscapesCatch ==
    (Lowered /\ kfunction.shape = "catch") =>
       \A b \in AllBlocks : \A i \in 1..Len(InstsOf(b)) :
          LET at == InstsOf(b)[i].at IN
          (ErrorBranch(b, i) /\ at.context.kind = "Catch")
             => InstsOf(b)[i].dests = <<Top(at.landing_pads)>>

\* the make_fun of a direct closure call inside a catch: when it fails the
\* function has returned the error and nothing was delivered
C16_Witness ==
    /\ kfunction.shape = "catch"
    /\ kfunction.stmt = "closure"
    /\ exec.outcome = "ret_err"
    /\ exec.raised # NoTerm
    /\ exec.delivered = <<>>
    /\ \E b \in AllBlocks : \E i \in 1..Len(InstsOf(b)) :
          /\ ErrorBranch(b, i)
          /\ InstsOf(b)[i].at.context.kind = "Catch"
          /\ ReturnsError(b, i - 1)

\* ------------------------------------------------------------- terminators
\* the block ends with a terminator and has no other
OneTerminator(insts) ==
    /\ insts # <<>>
    /\ insts[Len(insts)].op \in Terminators
    /\ \A i \in 1..(Len(insts) - 1) : insts[i].op \notin Terminators

\* an instruction follows a terminator of the block
AfterTerminator(insts) ==
    \E i \in 1..(Len(insts) - 1) : insts[i].op \in Terminators

\* C17: every block of the function a successful lowering returns, after
\* prune_unreachable_blocks, has exactly one terminator: none is left
\* without a terminator and nothing is appended after the terminator.
C17_OneTerminatorPerBlock ==
    Lowered => \A b \in live(lowered.blocks) : OneTerminator(InstsOf(b))

\* a returned function with a block that has no terminator (the block of a
\* guard try that does not end in a Break), or with one in which a constant
\* follows the ret of an exception
C17_Witness ==
    /\ Lowered
    /\ \E b \in live(lowered.blocks) :
          \/ AfterTerminator(InstsOf(b))
          \/ ~is_terminated(lowered.blocks[b])

\* -------------------------------------------------------- the entry block
\* the Kernel variable at position i is bound to the i-th parameter of the
\* entry block
BoundToParam(i) ==
    /\ kfunction.vars[i] \in DOMAIN lowered.vars
    /\ lowered.vars[kfunction.vars[i]] = BlockParam(entry, i)

\* C18 (as stated): the entry block has as many parameters as the
\* signature (the arity) and every Kernel function variable is bound to the
\* parameter at its own position, also when the number of variables and
\* the arity differ.
C18_EntryParamsAreSignature ==
    Lowered =>
       /\ lowered.blocks[entry].params = kfunction.arity
       /\ \A i \in 1..Len(kfunction.vars) : BoundToParam(i)

\* the number of (variable, parameter type) pairs
Paired ==
    IF Len(kfunction.vars) <= kfunction.arity THEN Len(kfunction.vars)
    ELSE kfunction.arity

\* C18 (amended): the entry block has one parameter per pair of a Kernel
\* variable and a signature parameter, the shorter of the two lists
\* deciding; the variables that have a pair are bound to the parameter at
\* their position, the others are left unbound; with as many variables as
\* the arity the parameters are those of the signature.
C18_EntryParamsArePairs ==
    Lowered =>
       /\ lowered.blocks[entry].params = Paired
       /\ \A i \in 1..Paired : BoundToParam(i)
       /\ \A i \in (Paired + 1)..Len(kfunction.vars) :
             kfunction.vars[i] \notin DOMAIN lowered.vars
       /\ (Len(kfunction.vars) = kfunction.arity =>
              lowered.blocks[entry].params = kfunction.arity)

\* a lowered function with more variables than the arity, and the last
\* variable unbound
C18_Witness ==
    /\ Lowered
    /\ Len(kfunction.vars) > kfunction.arity
    /\ kfunction.arity > 0
    /\ lowered.blocks[entry].params = kfunction.arity
    /\ BoundToParam(kfunction.arity)
    /\ kfunction.vars[Len(kfunction.vars)] \notin DOMAIN lowered.vars

\* ------------------------------------------------------- recv_wait_timeout
\* (b, i) is the call of recv_wait_timeout
RecvWaitTimeout(b, i) ==
    /\ InstsOf(b)[i].op = "call"
    /\ InstsOf(b)[i].name = "recv_wait_timeout"

\* the value is the constant `lit`
IsConst(v, lit) ==
    /\ v.t = "result"
    /\ InstsOf(v.b)[v.i].op = "const"
    /\ InstsOf(v.b)[v.i].name = lit

\* C19: the lowered recv_wait_timeout primop is a call of recv_wait_timeout
\* with the timeout of the Kernel IR as its argument (here the literal 0);
\* its ret variable is bound to the second result and the is_err result
\* branches to the block of the fail context with that result.
C19_RecvWaitTimeoutPassesTimeout ==
    (Lowered /\ kfunction.stmt = "recv") =>
       \E b \in live(lowered.blocks) : \E i \in 1..Len(InstsOf(b)) :
          /\ RecvWaitTimeout(b, i)
          /\ Len(InstsOf(b)[i].args) = 1
          /\ IsConst(InstsOf(b)[i].args[1], "0")
          /\ lowered.vars["R"] = InstResult(b, i, 1)
          /\ Checked(b, i)

\* the lowered `recv_wait_timeout(0)`: the call has no argument; the ret
\* variable and the test of is_err are as described
C19_Witness ==
    /\ Lowered
    /\ kfunction.stmt = "recv"
    /\ \E b \in live(lowered.blocks) : \E i \in 1..Len(InstsOf(b)) :
          /\ RecvWaitTimeout(b, i)
          /\ InstsOf(b)[i].args = <<>>
          /\ lowered.vars["R"] = InstResult(b, i, 1)
          /\ Checked(b, i)

\* ------------------------------------------------------------- Select
\* the instruction (b, i) was emitted for a type clause that has a next type
\* clause, after the test of the type: a test of a value or a clause body
AfterTypeTest(b, i) ==
    LET sel == InstsOf(b)[i].at.select
    IN /\ sel.part \in {"value", "body"}
       /\ sel.type_fail # sel.value_fail

BranchesTo(b, i, blk) ==
    \E d \in 1..Len(InstsOf(b)[i].dests) : InstsOf(b)[i].dests[d] = blk

ExclusiveTypes ==
    {"Atom", "Float", "Int", "Tuple", "Cons", "Nil", "Map", "Binary"}
SegmentTypes == {"BinarySegment", "BinaryInt", "BinaryEnd"}

\* C21 (as stated): in a Select with several type clauses no mismatch after
\* the type test of a clause, of a value or inside the body of a value
\* clause, branches to the block of the next type clause, for every match
\* type.
C21_MismatchNeverToNextType ==
    Lowered =>
       \A b \in AllBlocks : \A i \in 1..Len(InstsOf(b)) :
          AfterTypeTest(b, i)
             => ~BranchesTo(b, i, InstsOf(b)[i].at.select.type_fail)

\* C21 (amended): that holds for the clauses of type Atom, Float, Int,
\* Tuple, Cons, Nil, Map and Binary, and for the bodies of a Literal clause;
\* in the clauses of the segments of a binary (BinarySegment, BinaryInt,
\* BinaryEnd) nothing branches to value_fail.
C21_MismatchTargets ==
    Lowered =>
       \A b \in AllBlocks : \A i \in 1..Len(InstsOf(b)) :
          LET sel == InstsOf(b)[i].at.select IN
          AfterTypeTest(b, i) =>
             /\ (sel.ty \in ExclusiveTypes
                    => ~BranchesTo(b, i, sel.type_fail))
             /\ (sel.ty = "Literal" /\ sel.part = "body"
                    => ~BranchesTo(b, i, sel.type_fail))
             /\ (sel.ty \in SegmentTypes
                    => ~BranchesTo(b, i, sel.value_fail))

\* a mismatch of part `part` of a clause of type `ty` that branches to
\* type_fail (to_type) or to value_fail
Mismatch(ty, part, to_type) ==
    \E b \in AllBlocks : \E i \in 1..Len(InstsOf(b)) :
       LET sel == InstsOf(b)[i].at.select IN
       /\ AfterTypeTest(b, i)
       /\ sel.ty = ty
       /\ sel.part = part
       /\ BranchesTo(b, i, IF to_type THEN sel.type_fail ELSE sel.value_fail)

\* the lowered Select with a Literal clause followed by another type clause:
\* the test of its last value goes on to the next type, the mismatch of a
\* body goes to value_fail
C21_Witness ==
    /\ Lowered
    /\ kfunction.shape = "types_literal"
    /\ Mismatch("Literal", "value", TRUE)
    /\ Mismatch("Literal", "body", FALSE)

\* the same for the other types
C21_OtherTypesCovered ==
    /\ Lowered
    /\ \/ /\ kfunction.shape = "types_binary"
          /\ Mismatch("BinaryEnd", "body", TRUE)
          /\ Mismatch("BinaryInt", "body", TRUE)
          /\ Mismatch("BinaryInt", "value", TRUE)
       \/ /\ kfunction.shape = "types_map"
          /\ Mismatch("Map", "value", FALSE)
          /\ Mismatch("Map", "body", FALSE)
       \/ /\ kfunction.shape = "types_tuple"
          /\ Mismatch("Tuple", "value", FALSE)
          /\ Mismatch("Tuple", "body", FALSE)

\* ------------------------------------------------- the Tuple type clause
\* the value clauses of the Tuple type clause of the function lowered
TupleInput == kfunction.shape \in {"select_tuple", "types_tuple"}
TupleValues == kfunction.body.sub[1].sub[1].sub[1].sub
PatternElements(c) == TupleValues[c].args[1].args

\* the place of clause c among the arms: one more than the number of
\* clauses of smaller arity
Rank(c) ==
    1 + Cardinality({d \in 1..Len(TupleValues) :
                        Len(PatternElements(d)) < Len(PatternElements(c))})

\* the elements of clause c that are bound, and the place of the binding of
\* element e among the instructions of the arm
Used(c) == {e \in 1..Len(PatternElements(c)) : PatternElements(c)[e].ann # "unused"}
Place(c, e) == Cardinality({u \in Used(c) : u <= e})

\* the arities in ascending order, as the switch holds them
RECURSIVE Ascending(_)
Ascending(k) ==
    IF k > Len(TupleValues) THEN ""
    ELSE LET c == CHOOSE d \in 1..Len(TupleValues) : Rank(d) = k
         IN ToString(Len(PatternElements(c))) \o "," \o Ascending(k + 1)

\* the variable the body of clause c returns
Returned(c) ==
    LET body == TupleValues[c].sub[1]
    IN IF body.k = "Return" THEN body.args[1].op
       ELSE body.sub[1].sub[2].args[1].op

TupleSizeCalls ==
    {p \in AllBlocks \X (1..12) :
        /\ p[2] <= Len(InstsOf(p[1]))
        /\ InstsOf(p[1])[p[2]].op = "call"
        /\ InstsOf(p[1])[p[2]].name = "tuple_size"}

\* the arm of clause c: the bindings of its used elements, each to
\* get_element_imm of its own index on the tuple, then the body, whose value
\* is the binding and whose mismatch goes to value_fail
ArmOf(c, arm, tuple, value_fail) ==
    /\ Len(InstsOf(arm)) > Cardinality(Used(c))
    /\ \A e \in Used(c) :
          /\ InstsOf(arm)[Place(c, e)].op = "get_element_imm"
          /\ InstsOf(arm)[Place(c, e)].name = ToString(e - 1)
          /\ InstsOf(arm)[Place(c, e)].args = <<tuple>>
    /\ \A i \in 1..Len(InstsOf(arm)) :
          /\ InstsOf(arm)[i].op = "get_element_imm"
                => i <= Cardinality(Used(c))
          /\ InstsOf(arm)[i].op = "br_unless"
                => InstsOf(arm)[i].dests = <<value_fail>>
          /\ InstsOf(arm)[i].op = "ret_ok"
                => \E e \in Used(c) :
                      /\ PatternElements(c)[e].op = Returned(c)
                      /\ InstsOf(arm)[i].args =
                            <<InstResult(arm, Place(c, e), 0)>>
    /\ \E i \in 1..Len(InstsOf(arm)) : InstsOf(arm)[i].op = "ret_ok"

\* the code of the Tuple type clause at the tuple_size call (b, i)
TupleClauseAt(b, i) ==
    LET insts == InstsOf(b)
        sel == insts[i].at.select
        n == Len(TupleValues)
    IN /\ Len(insts) = i + 3
       /\ insts[i].args = <<BlockParam(entry, 1)>>
       /\ insts[i + 1].op = "br_if"
       /\ insts[i + 1].args = <<InstResult(b, i, 0)>>
       /\ insts[i + 1].dests = <<sel.type_fail>>
       /\ insts[i + 1].bargs = <<>>
       /\ insts[i + 2].op = "cast"
       /\ insts[i + 2].args = <<BlockParam(entry, 1)>>
       /\ insts[i + 3].op = "switch"
       /\ insts[i + 3].args = <<InstResult(b, i, 1)>>
       /\ insts[i + 3].name = Ascending(1)
       /\ Len(insts[i + 3].dests) = n + 1
       /\ insts[i + 3].dests[n + 1] = sel.value_fail
       /\ \A c, d \in 1..n :
             c # d => insts[i + 3].dests[Rank(c)] # insts[i + 3].dests[Rank(d)]
       /\ \A c \in 1..n :
             ArmOf(c, insts[i + 3].dests[Rank(c)], InstResult(b, i + 2, 0),
                   sel.value_fail)

\* C22: a Tuple type clause is lowered to one tuple_size call whose error
\* branches to type_fail, a cast, and a switch on the arity with one arm per
\* value clause in ascending order of arity and value_fail as default; each
\* arm binds the used elements with get_element_imm at their own index and
\* lowers the body with fail = value_fail; two value clauses of the same
\* arity end the pass with a panic.
C22_TupleClause ==
    /\ (kfunction.shape = "select_tuple_same_arity" /\ lower_pc # "input")
          => (lower_pc = "failed" /\ lowered.status = "panic")
    /\ (Lowered /\ TupleInput)
          => /\ Cardinality(TupleSizeCalls) = 1
             /\ \A p \in TupleSizeCalls : TupleClauseAt(p[1], p[2])

\* three value clauses of arity 3, 1 and 2 lowered: the arms are those of
\* arity 1, 2 and 3, and the next type clause is tried on type_fail
C22_Witness ==
    /\ Lowered
    /\ kfunction.shape = "types_tuple"
    /\ \E p \in TupleSizeCalls :
          /\ InstsOf(p[1])[p[2] + 3].name = "1,2,3,"
          /\ InstsOf(p[1])[p[2]].at.select.type_fail #
                InstsOf(p[1])[p[2]].at.select.value_fail

\* -------------------------------------------------------------------- Try
\* the functions whose body is a Try followed by the Return of its value;
\* the Try is lowered first, so its blocks are the first three created
\* after the entry and the ultimate-failure block
TryShapes == {"try", "try_body", "try_handler"}
TryBody == entry + 2
TryHandler == entry + 3
TryFinal == entry + 4

\* (b, i) was emitted while Arg was lowered; while Body or Handler was
InArg(b, i) == InstsOf(b)[i].at.landing_pads = <<TryHandler>>
InBodyOrHandler(b, i) ==
    /\ InstsOf(b)[i].at.landing_pads = <<>>
    /\ InstsOf(b)[i].at.brk = <<TryFinal>>

\* the code of Arg: an error goes to the handler block with the exception,
\* nothing returns from the function, a Break jumps to body_block
ArgCode(b, i) ==
    LET inst == InstsOf(b)[i]
    IN /\ ErrorBranch(b, i)
             => /\ inst.dests = <<TryHandler>>
                /\ inst.bargs = <<InstResult(b, i - 1, 1)>>
       /\ inst.op \notin {"ret", "ret_err", "ret_ok"}
       /\ inst.op = "br"
             => \/ inst.dests = <<TryBody>>
                \/ inst.dests = <<TryHandler>> /\ Len(inst.bargs) = 1

\* the code of Body and Handler: nothing goes to the handler block, an error
\* goes to the block of the enclosing fail context, a Break to final_block
BodyCode(b, i) ==
    LET inst == InstsOf(b)[i]
    IN /\ ~BranchesTo(b, i, TryHandler)
       /\ ErrorBranch(b, i)
             => /\ inst.dests = <<lowered.ultimate_failure>>
                /\ inst.at.context = Uncaught(lowered.ultimate_failure)
       /\ inst.op = "br" => inst.dests = <<TryFinal>>

\* lowering went on in final_block: the Return of the value of the Try
ContinuesInFinal ==
    LET insts == InstsOf(TryFinal)
    IN /\ lowered.blocks[TryFinal].params = 1
       /\ insts # <<>>
       /\ insts[Len(insts)].op = "ret_ok"
       /\ insts[Len(insts)].args = <<BlockParam(TryFinal, 1)>>
       /\ insts[Len(insts)].at.brk = <<>>
       /\ insts[Len(insts)].at.landing_pads = <<>>

TryCode ==
    /\ \A b \in AllBlocks : \A i \in 1..Len(InstsOf(b)) :
          /\ InArg(b, i) => ArgCode(b, i)
          /\ InBodyOrHandler(b, i) => BodyCode(b, i)
    /\ ContinuesInFinal

\* C23: in the code lowered for a Try, an exception raised in Arg goes to
\* the handler block of the Try with the exception as argument and a Break
\* in Arg to body_block; an exception in Body or Handler goes to the
\* enclosing fail context, a Break there to final_block, in which lowering
\* goes on.
C23_TryControlFlow ==
    (Lowered /\ kfunction.shape \in TryShapes) => TryCode

\* the same with the direct call of a local closure left out
TryCodeButForClosure ==
    (Lowered /\ kfunction.shape \in TryShapes /\ kfunction.stmt # "closure")
        => TryCode

\* the direct call of a local closure as the Arg of a Try: the block the
\* error of make_fun goes to returns it from the function
C23_Witness ==
    /\ Lowered
    /\ kfunction.shape = "try"
    /\ kfunction.stmt = "closure"
    /\ \E b \in AllBlocks : \E i \in 1..Len(InstsOf(b)) :
          /\ InArg(b, i)
          /\ ErrorBranch(b, i)
          /\ InstsOf(b)[i].dests # <<TryHandler>>
          /\ ReturnsError(b, i - 1)

\* -------------------------------------------------------------- match_fail
\* the statements that are a match_fail, and the term each one raises when
\* X is the argument of the function
MatchFails == {"match_fail", "function_clause", "badmatch"}

MatchFailTerm(stmt) ==
    CASE stmt = "function_clause" ->
           Tuple(<<Atom("function_clause"),
                   Tuple(<<Atom("module"), Atom("function"),
                           ListTerm(<<Opaque("arg")>>), ListTerm(<<>>)>>)>>)
      [] stmt = "match_fail" ->
           Tuple(<<Atom("case_clause"), ListTerm(<<Opaque("arg")>>)>>)
      [] OTHER -> Tuple(<<Atom("badmatch"), Opaque("arg")>>)

ErrorCall(b, i) ==
    /\ InstsOf(b)[i].op = "call"
    /\ InstsOf(b)[i].name = "erlang:error/1"

\* the instruction after the call of erlang:error/1 leaves the block as the
\* fail context of the call says
LeavesByContext(b, i) ==
    /\ i < Len(InstsOf(b))
    /\ LET at == InstsOf(b)[i].at
           next == InstsOf(b)[i + 1]
       IN CASE at.context.kind = "Uncaught" ->
                 /\ next.op = "ret"
                 /\ next.args = <<InstResult(b, i, 0), InstResult(b, i, 1)>>
            [] at.context.kind = "Catch" ->
                 /\ next.op = "br"
                 /\ next.dests = <<Top(at.landing_pads)>>
                 /\ next.bargs = <<InstResult(b, i, 1)>>
            [] OTHER ->
                 /\ next.op = "br"
                 /\ next.dests = <<at.fail>>
                 /\ at.fail # lowered.ultimate_failure
                 /\ next.bargs = <<>>

\* C24: a lowered match_fail calls erlang:error/1 on {function_clause,
\* {Module, Function, Args, Meta}}, on {case_clause, Args} or on {Type,
\* Reason}, and the next instruction terminates the block by the fail
\* context: Uncaught returns the error flag and the exception, Catch
\* branches to the innermost handler block with the exception, Guard
\* branches to the fail block of the guard with no argument.
C24_MatchFail ==
    (Lowered /\ kfunction.stmt \in MatchFails) =>
        /\ \A b \in AllBlocks : \A i \in 1..Len(InstsOf(b)) :
              ErrorCall(b, i) => LeavesByContext(b, i)
        /\ exec.raised # NoTerm =>
              exec.raised = Exception("error", MatchFailTerm(kfunction.stmt),
                                      Opaque("trace"))

\* a function_clause raised in a catch has reached the handler block
C24_Witness ==
    /\ Lowered
    /\ kfunction.stmt = "function_clause"
    /\ kfunction.shape = "catch"
    /\ exec.raised = Exception("error", MatchFailTerm("function_clause"),
                               Opaque("trace"))
    /\ \E h \in AllBlocks :
          /\ exec.blk = h
          /\ \E b \in AllBlocks : \E i \in 1..Len(InstsOf(b)) :
                /\ ErrorCall(b, i)
                /\ InstsOf(b)[i].at.context = Catch(h)

\* ------------------------------------------------------- Return and Break
\* `Stmt, Return R` is the body of the plain function, `Stmt, Break R` the
\* body of the Catch. The statements after which the block is still open,
\* those that terminate it and leave an exception in R, those followed by a
\* value that is no exception, and the one followed by a Break of nothing
Continuing == {"bif", "safe", "put", "local", "remote"}
ExceptionValued ==
    {"throw", "exit", "error", "match_fail", "function_clause", "badmatch"}
OtherValued == {"error_lit", "error_var"}
NothingValued == {"error_none"}

XDefined == kfunction.vars # <<>> /\ kfunction.arity > 0

PassEnded == lower_pc \in {"lowered", "failed"}

LastOf(b) == InstsOf(b)[Len(InstsOf(b))]

\* the entry block ends with ret_ok of one value
EmitsReturn ==
    /\ InstsOf(entry) # <<>>
    /\ LastOf(entry).op = "ret_ok"
    /\ Len(LastOf(entry).args) = 1

\* the entry block ends with the branch to the top of brk, the result block
\* of the Catch, with one argument
EmitsBreak ==
    /\ InstsOf(entry) # <<>>
    /\ LastOf(entry).op = "br"
    /\ LastOf(entry).dests = <<Top(LastOf(entry).at.brk)>>
    /\ LastOf(entry).dests = <<lowered.catches[1].result>>
    /\ Len(LastOf(entry).bargs) = 1

\* nothing follows the raising call and the terminator the exception op
\* emitted after it
NothingEmitted ==
    LET insts == InstsOf(entry)
    IN /\ Len(insts) >= 2
       /\ insts[Len(insts) - 1].op = "call"
       /\ insts[Len(insts) - 1].name \in Raising
       /\ IF kfunction.shape = "plain" THEN LastOf(entry).op = "ret"
          ELSE /\ LastOf(entry).op = "br"
               /\ LastOf(entry).dests = <<Top(LastOf(entry).at.landing_pads)>>

Emits ==
    /\ lowered.status = "ok"
    /\ kfunction.shape = "plain" => EmitsReturn
    /\ kfunction.shape = "catch" => EmitsBreak

Drops == lowered.status = "ok" /\ NothingEmitted

Reports == lowered.status = "err" /\ lowered.diagnostics = 1

\* C25: Return emits ret_ok(v) and Break the branch to the top of brk when
\* the current block is not terminated; when it is, the Return or Break is
\* dropped, nothing emitted, if the value is an exception (a Break with any
\* number of arguments, none included), and otherwise the pass fails with a
\* reported error.
C25_ReturnBreak ==
    (PassEnded /\ kfunction.shape \in {"plain", "catch"} /\ XDefined) =>
        /\ kfunction.stmt \in Continuing => Emits
        /\ kfunction.stmt \in ExceptionValued => Drops
        /\ (kfunction.stmt \in NothingValued /\ kfunction.shape = "catch")
              => Drops
        /\ kfunction.stmt \in OtherValued => Reports

\* what the pass does: a Break of no argument in a terminated block panics;
\* the constant of a literal is appended after the terminator and the Return
\* or Break is then emitted
ReturnBreakAsLowered ==
    (PassEnded /\ kfunction.shape \in {"plain", "catch"} /\ XDefined) =>
        /\ kfunction.stmt \in Continuing => Emits
        /\ kfunction.stmt \in ExceptionValued => Drops
        /\ (kfunction.stmt \in NothingValued /\ kfunction.shape = "catch")
              => lowered.status = "panic" /\ lowered.diagnostics = 0
        /\ kfunction.stmt = "error_var" => Reports
        /\ kfunction.stmt = "error_lit"
              => /\ Emits
                 /\ InstsOf(entry)[Len(InstsOf(entry)) - 1].op = "const"
                 /\ InstsOf(entry)[Len(InstsOf(entry)) - 2].op \in Terminators

\* `catch (erlang:error(X), Break [])`: the pass has panicked
C25_Witness ==
    /\ lower_pc = "failed"
    /\ kfunction.shape = "catch"
    /\ kfunction.stmt = "error_none"
    /\ XDefined
    /\ lowered.status = "panic"

\* -------------------------------------------------------- stack discipline
\* the lowering state an instruction was emitted in
StateAt(b, i) ==
    [brk |-> InstsOf(b)[i].at.brk,
     landing_pads |-> InstsOf(b)[i].at.landing_pads,
     labels |-> InstsOf(b)[i].at.labels,
     fail |-> InstsOf(b)[i].at.fail]

CallOf(b, i, name) ==
    /\ InstsOf(b)[i].op = "call"
    /\ InstsOf(b)[i].name = name

\* the bif before the nested form and the bif after it were lowered in
\* states related by R
BeforeAndAfter(R(_, _)) ==
    \A b \in AllBlocks : \A i \in 1..Len(InstsOf(b)) :
       \A c \in AllBlocks : \A j \in 1..Len(InstsOf(c)) :
          (CallOf(b, i, "hd") /\ CallOf(c, j, "tl"))
             => R(StateAt(b, i), StateAt(c, j))

Same(before, after) == after = before

LandingPadLost(before, after) ==
    /\ before.landing_pads # <<>>
    /\ after = [before EXCEPT !.landing_pads = Pop(@)]

\* C26: when the lowering of an expression form returns, the brk stack, the
\* landing_pads stack, the labels and the fail block are what they were when
\* it started; no break target or landing pad of an enclosing expression is
\* removed.
C26_StackDiscipline ==
    (Lowered /\ kfunction.shape = "nested") => BeforeAndAfter(Same)

\* every form but TryEnter restores the state; TryEnter removes the landing
\* pad of the enclosing Catch
StackDisciplineButForTryEnter ==
    (Lowered /\ kfunction.shape = "nested") =>
        IF kfunction.stmt = "try_enter" THEN BeforeAndAfter(LandingPadLost)
        ELSE BeforeAndAfter(Same)

\* a TryEnter inside a Catch was lowered, and the bif after it was lowered
\* with no landing pad
C26_Witness ==
    /\ Lowered
    /\ kfunction.shape = "nested"
    /\ kfunction.stmt = "try_enter"
    /\ \E b \in AllBlocks : \E i \in 1..Len(InstsOf(b)) :
          /\ CallOf(b, i, "hd")
          /\ StateAt(b, i).landing_pads # <<>>
    /\ \E c \in AllBlocks : \E j \in 1..Len(InstsOf(c)) :
          /\ CallOf(c, j, "tl")
          /\ StateAt(c, j).landing_pads = <<>>

\* ------------------------------------------------------ branch arguments
Branches == {"br", "br_if", "br_unless", "cond_br", "switch"}

\* the branch (b, i) passes to every target as many arguments as the target
\* has parameters
ArgsMatchParams(b, i) ==
    \A n \in 1..Len(InstsOf(b)[i].dests) :
       lowered.blocks[InstsOf(b)[i].dests[n]].params
          = Len(InstsOf(b)[i].bargs)

\* C27: every branch emitted by the lowering passes exactly as many
\* arguments as its target block has parameters, also when the fail block of
\* a match is the ultimate-failure block and when a fallible bif is lowered
\* in the Guard context.
C27_BranchArity ==
    Lowered =>
       \A b \in AllBlocks : \A i \in 1..Len(InstsOf(b)) :
          InstsOf(b)[i].op \in Branches => ArgsMatchParams(b, i)

\* a branch of a match or of a guard, which passes nothing, to the
\* ultimate-failure block, which takes the exception
NothingToUltimateFailure(b, i) ==
    /\ InstsOf(b)[i].bargs = <<>>
    /\ \A n \in 1..Len(InstsOf(b)[i].dests) :
          LET dest == InstsOf(b)[i].dests[n]
          IN \/ lowered.blocks[dest].params = 0
             \/ dest = lowered.ultimate_failure

\* the error branch after a fallible instruction, which passes the error,
\* to the fail block of a guard, which takes nothing
ErrorToGuardFail(b, i) ==
    /\ InstsOf(b)[i].op = "br_if"
    /\ InstsOf(b)[i].at.context.kind = "Guard"
    /\ InstsOf(b)[i].dests = <<InstsOf(b)[i].at.fail>>
    /\ Len(InstsOf(b)[i].bargs) = 1
    /\ lowered.blocks[InstsOf(b)[i].at.fail].params = 0

BranchArityButFor ==
    Lowered =>
       \A b \in AllBlocks : \A i \in 1..Len(InstsOf(b)) :
          InstsOf(b)[i].op \in Branches
             => \/ ArgsMatchParams(b, i)
                \/ NothingToUltimateFailure(b, i)
                \/ ErrorToGuardFail(b, i)

\* a Select that is the whole body of a Match: the branch taken when the
\* type test fails goes to the ultimate-failure block and passes nothing
C27_Witness ==
    /\ Lowered
    /\ kfunction.shape = "select_last"
    /\ \E b \in AllBlocks : \E i \in 1..Len(InstsOf(b)) :
          /\ InstsOf(b)[i].op = "br_unless"
          /\ InstsOf(b)[i].dests = <<lowered.ultimate_failure>>
          /\ InstsOf(b)[i].bargs = <<>>
          /\ lowered.blocks[lowered.ultimate_failure].params = 1

\* ============================================== the scheduler loop, again
\* the processes bound to this scheduler that are Running
RunningHere ==
    {p \in Pids : scheduler_id[p] = Self /\ status[p] = "Running"}

\* C28: whenever the scheduler loop dequeues, the current process is the
\* root process; the `Run::None => unreachable!()` arm is never reached: an
\* empty run queue is only observed with current == root.
C28_DequeueAtRoot ==
    /\ pc = "loop" => current = Root
    /\ lastRun = "None" => (current = Root /\ pc # "panic")

\* processes were spawned and swapped into, one has exited, and a later
\* call found the run queues empty and returned false at the root
C28_Witness ==
    /\ pc = "idle"
    /\ lastRun = "None"
    /\ ret = ReturnOnNone
    /\ current = Root
    /\ \E p \in Procs : is_exiting(status[p]) /\ total_reductions[p] > 0

C30_OneRunningIsCurrent == RunningHere = {current}

\* what the code keeps: at most one process is Running and it is current;
\* a process that executes is Running until it waits or exits; the root
\* process is Running or Runnable, and Runnable while a process executes
RunningAsCoded ==
    /\ RunningHere \subseteq {current}
    /\ pc = "running" => RunningHere = {current}
    /\ status[Root] \in {"Running", "Runnable"}
    /\ current # Root => status[Root] = "Runnable"

\* the root process, once descheduled by a swap, stays Runnable
RootStaysRunnable ==
    [][status[Root] = "Runnable" => status'[Root] = "Runnable"]_vars

\* control is back in the scheduler loop after a swap: the root process is
\* current and Runnable, and no process is Running
C30_Witness ==
    /\ pc = "loop"
    /\ current = Root
    /\ status[Root] = "Runnable"
    /\ RunningHere = {}

====
